---- MODULE Spec2Model ----
(***************************************************************************)
(* WeatherPulse: the FastAPI endpoints of app/main.py and the text         *)
(* extraction of app/weather_scraper.py (class WeatherScraper).            *)
(*                                                                         *)
(* Text is a sequence of characters, each a one-character string; the      *)
(* degree sign is the element "deg" and the line feed is "\n".  A Python   *)
(* Optional value is None (the empty tuple) or Some(v) (the 1-tuple of v). *)
(* A float is the exact rational <<numerator, denominator>> of the         *)
(* expression the code evaluates; IEEE rounding of the quotient is not     *)
(* modelled.                                                               *)
(***************************************************************************)
EXTENDS Integers, Sequences, FiniteSets, TLC

None == <<>>
Some(v) == <<v>>
IsSome(o) == o # None
Get(o) == o[1]

(***************************************************************************)
(* Characters and str methods                                              *)
(***************************************************************************)
Digits == <<"0", "1", "2", "3", "4", "5", "6", "7", "8", "9">>
UpperLetters ==
    <<"A", "B", "C", "D", "E", "F", "G", "H", "I", "J", "K", "L", "M",
      "N", "O", "P", "Q", "R", "S", "T", "U", "V", "W", "X", "Y", "Z">>
LowerLetters ==
    <<"a", "b", "c", "d", "e", "f", "g", "h", "i", "j", "k", "l", "m",
      "n", "o", "p", "q", "r", "s", "t", "u", "v", "w", "x", "y", "z">>

IndexIn(seq, c) == CHOOSE i \in 1..Len(seq) : seq[i] = c
DigitSet == {Digits[i] : i \in 1..Len(Digits)}
UpperSet == {UpperLetters[i] : i \in 1..Len(UpperLetters)}
LowerSet == {LowerLetters[i] : i \in 1..Len(LowerLetters)}
DigitOf == [c \in DigitSet |-> IndexIn(Digits, c) - 1]
LowerOf == [c \in UpperSet |-> LowerLetters[IndexIn(UpperLetters, c)]]
UpperOf == [c \in LowerSet |-> UpperLetters[IndexIn(LowerLetters, c)]]

IsDigit(c) == c \in DigitSet
DigitVal(c) == DigitOf[c]
IsAlpha(c) == c \in UpperSet \/ c \in LowerSet
\* the class \s of re on the characters of the model
IsSpace(c) == c \in {" ", "\n", "\t"}

lowerChar(c) == IF c \in UpperSet THEN LowerOf[c] ELSE c
upperChar(c) == IF c \in LowerSet THEN UpperOf[c] ELSE c

\* str.lower()
lower(s) == [i \in 1..Len(s) |-> lowerChar(s[i])]

\* str.title(): a cased character is upper-cased when the character before it
\* is not cased, lower-cased otherwise
title(s) ==
    [i \in 1..Len(s) |->
        IF i > 1 /\ IsAlpha(s[i - 1]) THEN lowerChar(s[i]) ELSE upperChar(s[i])]

Min(S) == CHOOSE x \in S : \A y \in S : x <= y

\* s[i:i+len(w)] == w
OccursAt(s, w, i) ==
    /\ i >= 1
    /\ i + Len(w) - 1 <= Len(s)
    /\ \A k \in 1..Len(w) : s[i + k - 1] = w[k]

\* w in s
Contains(s, w) == \E i \in 1..(Len(s) - Len(w) + 1) : OccursAt(s, w, i)

(***************************************************************************)
(* re: the pieces the patterns of weather_scraper.py are built from.       *)
(* Every pattern is compiled with re.IGNORECASE, so a literal is compared  *)
(* with the lower-cased text.                                              *)
(***************************************************************************)
\* the literal w (lower case) matches at i, ignoring case
LiteralAt(s, w, i) ==
    /\ i >= 1
    /\ i + Len(w) - 1 <= Len(s)
    /\ \A k \in 1..Len(w) : lowerChar(s[i + k - 1]) = w[k]

\* \d+ from the digit at i, greedy: the last index of the run of digits
RunEnd(s, i) == Min({e \in i..Len(s) : e = Len(s) \/ ~IsDigit(s[e + 1])})

\* \s* from i, greedy: the first index at or after i that holds no white space
SkipSpace(s, i) == Min({e \in i..(Len(s) + 1) : e = Len(s) + 1 \/ ~IsSpace(s[e])})

\* .*? from i up to j: the characters between hold no line feed
NoNewline(s, i, j) == \A k \in i..j : s[k] # "\n"

\* the least integer float() cannot hold: 2^1024 - 2^970, in decimal digits
FloatLimitDigits ==
    <<1, 7, 9, 7, 6, 9, 3, 1, 3, 4, 8, 6, 2, 3, 1, 5, 8, 0, 7, 9, 3, 7, 2, 8, 9, 7, 1, 4, 0, 5, 3, 0, 3, 4, 1, 5, 0, 7, 9, 9,
      3, 4, 1, 3, 2, 7, 1, 0, 0, 3, 7, 8, 2, 6, 9, 3, 6, 1, 7, 3, 7, 7, 8, 9, 8, 0, 4, 4, 4, 9, 6, 8, 2, 9, 2, 7, 6, 4, 7, 5,
      0, 9, 4, 6, 6, 4, 9, 0, 1, 7, 9, 7, 7, 5, 8, 7, 2, 0, 7, 0, 9, 6, 3, 3, 0, 2, 8, 6, 4, 1, 6, 6, 9, 2, 8, 8, 7, 9, 1, 0,
      9, 4, 6, 5, 5, 5, 5, 4, 7, 8, 5, 1, 9, 4, 0, 4, 0, 2, 6, 3, 0, 6, 5, 7, 4, 8, 8, 6, 7, 1, 5, 0, 5, 8, 2, 0, 6, 8, 1, 9,
      0, 8, 9, 0, 2, 0, 0, 0, 7, 0, 8, 3, 8, 3, 6, 7, 6, 2, 7, 3, 8, 5, 4, 8, 4, 5, 8, 1, 7, 7, 1, 1, 5, 3, 1, 7, 6, 4, 4, 7,
      5, 7, 3, 0, 2, 7, 0, 0, 6, 9, 8, 5, 5, 5, 7, 1, 3, 6, 6, 9, 5, 9, 6, 2, 2, 8, 4, 2, 9, 1, 4, 8, 1, 9, 8, 6, 0, 8, 3, 4,
      9, 3, 6, 4, 7, 5, 2, 9, 2, 7, 1, 9, 0, 7, 4, 1, 6, 8, 4, 4, 4, 3, 6, 5, 5, 1, 0, 7, 0, 4, 3, 4, 2, 7, 1, 1, 5, 5, 9, 6,
      9, 9, 5, 0, 8, 0, 9, 3, 0, 4, 2, 8, 8, 0, 1, 7, 7, 9, 0, 4, 1, 7, 4, 4, 9, 7, 7, 9, 2>>

(***************************************************************************)
(* int and float                                                           *)
(***************************************************************************)
\* int(group): a Python int has no width; it is kept as its decimal digits
\* without leading zeros
RECURSIVE StripZeros(_)
StripZeros(ds) ==
    IF Len(ds) > 1 /\ ds[1] = "0" THEN StripZeros(Tail(ds)) ELSE ds

int(ds) == StripZeros(ds)

\* the value of an int, for the ints small enough for machine arithmetic
RECURSIVE IntValue(_)
IntValue(n) ==
    IF n = <<>> THEN 0
    ELSE 10 * IntValue(SubSeq(n, 1, Len(n) - 1)) + DigitVal(n[Len(n)])

\* n >= 2^1024 - 2^970, for an int n of as many digits as that limit
GeqLimit(n) ==
    \/ \A k \in 1..Len(n) : DigitVal(n[k]) = FloatLimitDigits[k]
    \/ \E k \in 1..Len(n) :
        /\ DigitVal(n[k]) > FloatLimitDigits[k]
        /\ \A j \in 1..(k - 1) : DigitVal(n[j]) = FloatLimitDigits[j]

\* float(n) raises OverflowError: int too large to convert to float
FloatOverflows(n) ==
    \/ Len(n) > Len(FloatLimitDigits)
    \/ Len(n) = Len(FloatLimitDigits) /\ GeqLimit(n)

\* float(n) of an int that float() can hold
float(n) == <<IntValue(n), 1>>

\* arithmetic of floats with an int operand, and equality of two floats
RMul(r, k) == <<r[1] * k, r[2]>>
RDiv(r, k) == <<r[1], r[2] * k>>
RAdd(r, k) == <<r[1] + k * r[2], r[2]>>
RSub(r, k) == <<r[1] - k * r[2], r[2]>>
REq(a, b) == a[1] * b[2] = b[1] * a[2]

(***************************************************************************)
(* The temperature patterns of _extract_current_weather                    *)
(***************************************************************************)
\* r'(\d+)°C': the starts of its matches
CelsiusStarts(s) ==
    {i \in 1..Len(s) :
        IsDigit(s[i]) /\ LiteralAt(s, <<"deg", "c">>, RunEnd(s, i) + 1)}

\* r'(\d+)°F'
FahrenheitStarts(s) ==
    {i \in 1..Len(s) :
        IsDigit(s[i]) /\ LiteralAt(s, <<"deg", "f">>, RunEnd(s, i) + 1)}

\* r'(\d+)\s*degrees'
DegreesStarts(s) ==
    {i \in 1..Len(s) :
        /\ IsDigit(s[i])
        /\ LiteralAt(s, <<"d", "e", "g", "r", "e", "e", "s">>,
                     SkipSpace(s, RunEnd(s, i) + 1))}

KwTemperature == <<"t", "e", "m", "p", "e", "r", "a", "t", "u", "r", "e">>

\* r'temperature.*?(\d+)': the digits .*? can reach from the keyword at i
GenericDigits(s, i) ==
    {d \in (i + Len(KwTemperature))..Len(s) :
        IsDigit(s[d]) /\ NoNewline(s, i + Len(KwTemperature), d - 1)}

GenericStarts(s) ==
    {i \in 1..Len(s) : LiteralAt(s, KwTemperature, i) /\ GenericDigits(s, i) # {}}

\* the group (\d+) that starts at i
RunAt(s, i) == SubSeq(s, i, RunEnd(s, i))

\* re.findall(pattern, text_content, re.IGNORECASE)[0], None when findall returns
\* the empty list: the group of the leftmost match
FirstGroup(s, starts) ==
    IF starts = {} THEN None ELSE Some(RunAt(s, Min(starts)))

FirstGenericGroup(s, starts) ==
    IF starts = {} THEN None ELSE Some(RunAt(s, Min(GenericDigits(s, Min(starts)))))

\* matches of each pattern of temp_patterns, in the order of the list
temp_patterns(s) ==
    <<FirstGroup(s, CelsiusStarts(s)),
      FirstGroup(s, FahrenheitStarts(s)),
      FirstGenericGroup(s, GenericStarts(s)),
      FirstGroup(s, DegreesStarts(s))>>

\* the index of the first pattern with a match, 0 when none has one
FirstPattern(matches) ==
    IF \A p \in 1..Len(matches) : matches[p] = None THEN 0
    ELSE Min({p \in 1..Len(matches) : matches[p] # None})

\* for pattern in temp_patterns: ... if matches: ... break
\* matches[0] of the first pattern that has matches, None when the loop ends
FirstMatch(matches) ==
    IF FirstPattern(matches) = 0 THEN None ELSE matches[FirstPattern(matches)]

\* a unit test that is not the source's: no text counts as Celsius
NeverCelsius(s) == FALSE

\* '°C' in text_content or 'celsius' in text_content.lower()
CelsiusText(s) ==
    \/ Contains(s, <<"deg", "C">>)
    \/ Contains(lower(s), <<"c", "e", "l", "s", "i", "u", "s">>)

\* temp_celsius = float(temp_value); temp_fahrenheit = (temp_celsius * 9/5) + 32
FromCelsius(temp_celsius) ==
    <<temp_celsius, RAdd(RDiv(RMul(temp_celsius, 9), 5), 32)>>

\* temp_fahrenheit = float(temp_value); temp_celsius = (temp_fahrenheit - 32) * 5/9
FromFahrenheit(temp_fahrenheit) ==
    <<RDiv(RMul(RSub(temp_fahrenheit, 32), 5), 9), temp_fahrenheit>>

\* a fallback that is not the source's: 25.0 in both units
SameInBothUnits == <<<<25, 1>>, <<25, 1>>>>

\* temp_celsius = 25.0, temp_fahrenheit = 77.0
DefaultTemperatures == <<<<25, 1>>, <<77, 1>>>>

\* the body of the loop for temp_value = int(matches[0]): None when float()
\* raises, else Some(<<temp_celsius, temp_fahrenheit>>)
Convert(temp_value, celsius) ==
    IF FloatOverflows(temp_value) THEN None
    ELSE IF celsius THEN Some(FromCelsius(float(temp_value)))
    ELSE Some(FromFahrenheit(float(temp_value)))

\* the loop and the fallback "if temp_celsius is None"
Temperatures(text, match) ==
    IF match = None THEN Some(DefaultTemperatures)
    ELSE Convert(int(Get(match)), CelsiusText(text))

(***************************************************************************)
(* The matchers of WeatherScraper                                          *)
(***************************************************************************)
conditions ==
    <<<<"s", "u", "n", "n", "y">>,
      <<"c", "l", "o", "u", "d", "y">>,
      <<"r", "a", "i", "n", "y">>,
      <<"s", "t", "o", "r", "m", "y">>,
      <<"c", "l", "e", "a", "r">>,
      <<"o", "v", "e", "r", "c", "a", "s", "t">>,
      <<"p", "a", "r", "t", "l", "y", " ", "c", "l", "o", "u", "d", "y">>,
      <<"m", "o", "s", "t", "l", "y", " ", "c", "l", "o", "u", "d", "y">>>>

PartlyCloudy == <<"P", "a", "r", "t", "l", "y", " ", "C", "l", "o", "u", "d", "y">>

\* the first index at which w occurs in s
Position(s, w) == Min({i \in 1..Len(s) : OccursAt(s, w, i)})

\* the other reading of "first": the word that occurs first in the text, not
\* the first of the list; 0 when no word occurs
FirstInText(words, s) ==
    IF \A k \in 1..Len(words) : ~Contains(s, words[k]) THEN 0
    ELSE CHOOSE k \in 1..Len(words) :
            /\ Contains(s, words[k])
            /\ \A j \in 1..Len(words) :
                  Contains(s, words[j]) =>
                      \/ Position(s, words[k]) < Position(s, words[j])
                      \/ Position(s, words[k]) = Position(s, words[j]) /\ k <= j

\* for w in words: if w in s: return w  -- the index of the word returned, 0 when
\* the loop falls through
FirstWordIn(words, s) ==
    IF \A k \in 1..Len(words) : ~Contains(s, words[k]) THEN 0
    ELSE Min({k \in 1..Len(words) : Contains(s, words[k])})

\* return condition.title() in the loop, return "Partly Cloudy" after it
ConditionLabel(k) == IF k # 0 THEN title(conditions[k]) ELSE PartlyCloudy

_extract_condition(text) == ConditionLabel(FirstWordIn(conditions, lower(text)))

\* (\d+(?:\.\d+)?) from d, greedy: the last index of the number; with frac false
\* the group is (\d+)
FractionEnd(s, e, frac) ==
    IF frac /\ e + 2 <= Len(s) /\ s[e + 1] = "." /\ IsDigit(s[e + 2])
    THEN RunEnd(s, e + 2)
    ELSE e

NumEnd(s, d, frac) == FractionEnd(s, RunEnd(s, d), frac)

\* what follows the group: \s* when ws, then one of the literals of units
TailAt(s, j, ws, units) ==
    \E u \in units : LiteralAt(s, u, IF ws THEN SkipSpace(s, j) ELSE j)

\* kw.*?(group)tail: the starts of the groups .*? can reach from the keyword at i
GroupStarts(s, kw, i, frac, ws, units) ==
    {d \in (i + Len(kw))..Len(s) :
        /\ IsDigit(s[d])
        /\ NoNewline(s, i + Len(kw), d - 1)
        /\ TailAt(s, NumEnd(s, d, frac) + 1, ws, units)}

\* the starts of the matches of kw.*?(group)tail
SearchStarts(s, kw, frac, ws, units) ==
    {i \in 1..Len(s) :
        LiteralAt(s, kw, i) /\ GroupStarts(s, kw, i, frac, ws, units) # {}}

\* group(1) of the leftmost match, its .*? the shortest
SearchGroup(s, kw, frac, ws, units, i) ==
    SubSeq(s, Min(GroupStarts(s, kw, i, frac, ws, units)),
           NumEnd(s, Min(GroupStarts(s, kw, i, frac, ws, units)), frac))

SearchFrom(s, kw, frac, ws, units, starts) ==
    IF starts = {} THEN None
    ELSE Some(SearchGroup(s, kw, frac, ws, units, Min(starts)))

\* re.search(r'kw.*?(group)tail', text, re.IGNORECASE): None, or Some of group(1)
search(s, kw, frac, ws, units) ==
    SearchFrom(s, kw, frac, ws, units, SearchStarts(s, kw, frac, ws, units))

RECURSIVE Pow10(_)
Pow10(n) == IF n = 0 THEN 1 ELSE 10 * Pow10(n - 1)

\* float(group) of '\d+(?:\.\d+)?': the digits without the dot over the power of
\* ten of the fraction's length; a str too large for a float gives inf, <<1, 0>>
FloatOfParts(whole, fract) ==
    IF FloatOverflows(int(whole)) THEN <<1, 0>>
    ELSE <<IntValue(int(whole \o fract)), Pow10(Len(fract))>>

DotAt(g) == IF \E k \in 1..Len(g) : g[k] = "." THEN Min({k \in 1..Len(g) : g[k] = "."})
            ELSE Len(g) + 1

floatOfStr(g) == FloatOfParts(SubSeq(g, 1, DotAt(g) - 1), SubSeq(g, DotAt(g) + 1, Len(g)))

\* a matcher that is not the source's: 0 where there is no match
IntOrZero(m) == IF m # None THEN Some(int(Get(m))) ELSE Some(<<"0">>)

\* int(m.group(1)) if m else None
IntOrNone(m) == IF m # None THEN Some(int(Get(m))) ELSE None

\* float(m.group(1)) if m else None
FloatOrNone(m) == IF m # None THEN Some(floatOfStr(Get(m))) ELSE None

_extract_humidity(text) ==
    IntOrNone(search(text, <<"h", "u", "m", "i", "d", "i", "t", "y">>,
                     FALSE, FALSE, {<<"%">>}))

_extract_pressure(text) ==
    FloatOrNone(search(text, <<"p", "r", "e", "s", "s", "u", "r", "e">>,
                       TRUE, TRUE, {<<"m", "b">>, <<"h", "p", "a">>}))

_extract_wind_speed(text) ==
    FloatOrNone(search(text, <<"w", "i", "n", "d">>, TRUE, TRUE,
                       {<<"k", "m", "/", "h">>, <<"m", "p", "h">>}))

directions ==
    <<<<"N">>, <<"N", "E">>, <<"E">>, <<"S", "E">>, <<"S">>, <<"S", "W">>,
      <<"W">>, <<"N", "W">>, <<"N", "o", "r", "t", "h">>,
      <<"S", "o", "u", "t", "h">>, <<"E", "a", "s", "t">>, <<"W", "e", "s", "t">>>>

\* f" {direction} " in text_content or f"{direction}E" in text_content
\*   or f"{direction}W" in text_content
DirectionIn(text_content, direction) ==
    \/ Contains(text_content, <<" ">> \o direction \o <<" ">>)
    \/ Contains(text_content, direction \o <<"E">>)
    \/ Contains(text_content, direction \o <<"W">>)

_extract_wind_direction(text) ==
    IF \A k \in 1..Len(directions) : ~DirectionIn(text, directions[k]) THEN None
    ELSE Some(directions[Min({k \in 1..Len(directions) :
                                DirectionIn(text, directions[k])})])

_extract_visibility(text) ==
    FloatOrNone(search(text, <<"v", "i", "s", "i", "b", "i", "l", "i", "t", "y">>,
                       TRUE, TRUE, {<<"k", "m">>}))

_extract_uv_index(text) ==
    IntOrNone(search(text, <<"u", "v">>, FALSE, FALSE, {<<>>}))

aqi_qualities ==
    <<<<"g", "o", "o", "d">>,
      <<"m", "o", "d", "e", "r", "a", "t", "e">>,
      <<"u", "n", "h", "e", "a", "l", "t", "h", "y">>,
      <<"h", "a", "z", "a", "r", "d", "o", "u", "s">>,
      <<"e", "x", "c", "e", "l", "l", "e", "n", "t">>>>

\* return quality.title() in the loop, return None after it
QualityLabel(k) == IF k # 0 THEN Some(title(aqi_qualities[k])) ELSE None

_extract_air_quality(text) == QualityLabel(FirstWordIn(aqi_qualities, lower(text)))

(***************************************************************************)
(* _extract_current_weather: None when the try block raises (the except    *)
(* clause returns None), else Some of the CurrentWeather record            *)
(***************************************************************************)
CurrentWeather(text, temps) ==
    IF temps = None THEN None
    ELSE Some([temperature |-> Get(temps)[1],
               temperature_fahrenheit |-> Some(Get(temps)[2]),
               condition |-> _extract_condition(text),
               humidity |-> _extract_humidity(text),
               pressure |-> _extract_pressure(text),
               wind_speed |-> _extract_wind_speed(text),
               wind_direction |-> _extract_wind_direction(text),
               visibility |-> _extract_visibility(text),
               uv_index |-> _extract_uv_index(text),
               air_quality |-> _extract_air_quality(text)])

_extract_current_weather(text) ==
    CurrentWeather(text, Temperatures(text, FirstMatch(temp_patterns(text))))

(***************************************************************************)
(* Dates.  A date is its proleptic ordinal; datetime.now() is read once in *)
(* every iteration of a forecast loop, and midnight may pass between two   *)
(* readings: now(today, cross, i) is the date read in iteration i when     *)
(* midnight passes right before iteration cross (0: it does not pass).     *)
(***************************************************************************)
\* date.max.toordinal(): datetime + timedelta beyond it raises OverflowError
MaxOrdinal == 3652059

now(today, cross, i) == IF cross # 0 /\ i >= cross THEN today + 1 ELSE today

\* (datetime.now() + timedelta(days=i)) raises OverflowError in a loop of n
\* iterations (the dates grow with i, so the last iteration decides)
DateOverflows(today, cross, n) ==
    n >= 1 /\ now(today, cross, n - 1) + (n - 1) > MaxOrdinal

\* str(n) for n >= 0
RECURSIVE str(_)
str(n) ==
    IF n < 10 THEN <<Digits[n + 1]>>
    ELSE str(n \div 10) \o <<Digits[(n % 10) + 1]>>

\* _extract_forecast_data: the loop of 7 days; None when the try block raises
ForecastDays == 7

_extract_forecast_data(today, cross) ==
    IF DateOverflows(today, cross, ForecastDays) THEN None
    ELSE Some([k \in 1..ForecastDays |->
                 LET i == k - 1
                 IN  [date |-> now(today, cross, i) + i,
                      high_temp |-> 28 + i,
                      low_temp |-> 22 + i,
                      condition |-> PartlyCloudy,
                      precipitation_chance |-> Some(30)]])

\* a forecast that is not the source's: the precipitation capped at 100%
scrape_forecast_capped(city, days, today, cross) ==
    IF DateOverflows(today, cross, days) THEN None
    ELSE Some([city |-> city,
               forecast_days |-> days,
               forecast |->
                 [k \in 1..days |->
                    [date |-> now(today, cross, k - 1) + (k - 1),
                     high_temp |-> 28 + ((k - 1) % 3),
                     low_temp |-> 22 + ((k - 1) % 2),
                     condition |-> PartlyCloudy,
                     precipitation |->
                        IF 30 + ((k - 1) * 5) > 100 THEN <<"1", "0", "0", "%">>
                        ELSE str(30 + ((k - 1) * 5)) \o <<"%">>]]])

\* a forecast that is not the source's: low_temp rising with i as in
\* _extract_forecast_data, high_temp cycling
scrape_forecast_rising(city, days, today, cross) ==
    IF DateOverflows(today, cross, days) THEN None
    ELSE Some([city |-> city,
               forecast_days |-> days,
               forecast |->
                 [k \in 1..days |->
                    LET i == k - 1
                    IN  [date |-> now(today, cross, i) + i,
                         high_temp |-> 28 + (i % 3),
                         low_temp |-> 22 + i,
                         condition |-> PartlyCloudy,
                         precipitation |-> str(30 + (i * 5)) \o <<"%">>]]])

\* scrape_forecast_data: None when the try block raises
scrape_forecast_data(city, days, today, cross) ==
    IF DateOverflows(today, cross, days) THEN None
    ELSE Some([city |-> city,
               forecast_days |-> days,
               forecast |->
                 [k \in 1..days |->
                    LET i == k - 1
                    IN  [date |-> now(today, cross, i) + i,
                         high_temp |-> 28 + (i % 3),
                         low_temp |-> 22 + (i % 2),
                         condition |-> PartlyCloudy,
                         precipitation |-> str(30 + (i * 5)) \o <<"%">>]]])

\* a record that is not the source's: country=country, so that an empty
\* country is kept and a missing one is left out
WeatherResponseAsGiven(current_weather, city, state, country, today, cross) ==
    IF current_weather = None THEN None
    ELSE Some([city |-> city,
               state |-> state,
               country |-> IF country = None THEN "" ELSE Get(country),
               current_weather |-> Get(current_weather),
               forecast |-> _extract_forecast_data(today, cross),
               last_updated |-> now(today, cross, ForecastDays),
               data_source |-> "Bing Weather"])

\* _parse_bing_weather on the text of the soup
WeatherResponse(current_weather, city, state, country, today, cross) ==
    IF current_weather = None THEN None
    ELSE Some([city |-> city,
               state |-> state,
               country |-> IF country = None \/ country = Some("")
                           THEN "India" ELSE Get(country),
               current_weather |-> Get(current_weather),
               forecast |-> _extract_forecast_data(today, cross),
               last_updated |-> now(today, cross, ForecastDays),
               data_source |-> "Bing Weather"])

\* a parser that is not the source's: the matchers are given the text only
\* while the date has not changed since the call began
ParseByClock(text, city, state, country, today, cross) ==
    WeatherResponse(_extract_current_weather(IF cross = 0 THEN text ELSE <<>>),
                    city, state, country, today, cross)

_parse_bing_weather(text, city, state, country, today, cross) ==
    WeatherResponse(_extract_current_weather(text), city, state, country, today,
                    cross)

(***************************************************************************)
(* Exceptions, and the outcome of a call: a value returned or an exception *)
(* raised                                                                  *)
(***************************************************************************)
NoExc == [class |-> "none", status_code |-> 0, detail |-> ""]
Exc(class) == [class |-> class, status_code |-> 0, detail |-> ""]
HTTPException(status_code, detail) ==
    [class |-> "HTTPException", status_code |-> status_code, detail |-> detail]

\* the classes "except Exception" catches: aiohttp.ClientError,
\* aiohttp.ServerTimeoutError and fastapi.HTTPException all derive from Exception
IsException(e) ==
    e.class \in {"ClientError", "ServerTimeoutError", "HTTPException", "Exception"}

Return(v) == [raised |-> FALSE, value |-> v, exc |-> NoExc]
Raise(e) == [raised |-> TRUE, value |-> None, exc |-> e]

\* what session.get(url) gives: a response with a status, or an exception
GotStatus(status) == [status |-> status, exc |-> NoExc]
GetRaised(class) == [status |-> 0, exc |-> Exc(class)]
\* what response.text() gives: the page, or an exception
GotText(t) == [text |-> t, exc |-> NoExc]
TextRaised(class) == [text |-> <<>>, exc |-> Exc(class)]
NoBody == GotText(<<>>)

\* a try block that is not the source's: the page is read and parsed whatever
\* the status of the response
ScrapeTryAnyStatus(fetch, body, city, state, country, today, cross) ==
    IF fetch.exc # NoExc THEN Raise(fetch.exc)
    ELSE IF body.exc # NoExc THEN Raise(body.exc)
    ELSE Return(_parse_bing_weather(body.text, city, state, country, today, cross))

\* scrape_weather_data: its try block, then "except Exception: return None".
\* soup.get_text() of the parsed page is the text the matchers read.
ScrapeTry(fetch, body, city, state, country, today, cross) ==
    IF fetch.exc # NoExc THEN Raise(fetch.exc)
    ELSE IF fetch.status # 200 THEN Return(None)
    ELSE IF body.exc # NoExc THEN Raise(body.exc)
    ELSE Return(_parse_bing_weather(body.text, city, state, country, today, cross))

\* a try block without its except clause: the exception leaves the call
NoExcept(try) == try

\* except Exception as e: ... return None
ExceptReturnNone(try) ==
    IF try.raised /\ IsException(try.exc) THEN Return(None) ELSE try

scrape_weather_data(fetch, body, city, state, country, today, cross) ==
    ExceptReturnNone(ScrapeTry(fetch, body, city, state, country, today, cross))

(***************************************************************************)
(* The endpoints of main.py.  Each is                                      *)
(*     try:                                                                *)
(*         data = await weather_scraper.<call>                             *)
(*         if not data: raise HTTPException(status_code=404, ...)          *)
(*         return data                                                     *)
(*     except Exception as e:                                              *)
(*         raise HTTPException(status_code=500, ...)                       *)
(***************************************************************************)
EndpointTry(call, not_found) ==
    IF call.raised THEN call
    ELSE IF call.value = None THEN Raise(HTTPException(404, not_found))
    ELSE Return(call.value)

\* except Exception as e: ... raise HTTPException(status_code=500, ...)
ExceptRaise500(try, failed) ==
    IF try.raised /\ IsException(try.exc)
    THEN Raise(HTTPException(500, failed))
    ELSE try

Endpoint(call, not_found, failed) ==
    ExceptRaise500(EndpointTry(call, not_found), failed)

\* the response FastAPI sends for what the endpoint returned or raised
Response(r) ==
    IF r.raised
    THEN [status_code |-> r.exc.status_code, detail |-> r.exc.detail, body |-> None]
    ELSE [status_code |-> 200, detail |-> "", body |-> r.value]

get_weather(call) ==
    Response(Endpoint(call, "Weather data not found for {city}",
                      "Failed to fetch weather data"))

search_weather(call) ==
    Response(Endpoint(call, "Weather data not found",
                      "Failed to search weather data"))

get_weather_forecast(call) ==
    Response(Endpoint(call, "Forecast data not found for {city}",
                      "Failed to fetch forecast data"))

\* LocationRequest: city is a required str (Field(...)), state and country are
\* optional; FastAPI answers 422 when the body does not validate
LocationRequestValid(body) == body.city # None

ValidationError == [status_code |-> 422, detail |-> "validation error", body |-> None]

(***************************************************************************)
(* utils/helpers.py.  A float argument is the rational it holds, <<n, d>>   *)
(* with d > 0.                                                             *)
(***************************************************************************)
\* rounding of n / d to the nearest integer, a half going up: not round()
RoundHalfUp(n, d) ==
    IF 2 * (n % d) < d THEN n \div d ELSE (n \div d) + 1

\* round(x) for x = n / d: the nearest integer, a half going to the even one
RoundHalfEven(n, d) ==
    IF 2 * (n % d) < d THEN n \div d
    ELSE IF 2 * (n % d) > d THEN (n \div d) + 1
    ELSE IF (n \div d) % 2 = 0 THEN n \div d
    ELSE (n \div d) + 1

compass ==
    <<"N", "NNE", "NE", "ENE", "E", "ESE", "SE", "SSE",
      "S", "SSW", "SW", "WSW", "W", "WNW", "NW", "NNW">>

\* index = round(degrees / 22.5) % 16; degrees / 22.5 is 2n / 45d
format_wind_direction(degrees) ==
    IF degrees = None THEN "Variable"
    ELSE compass[(RoundHalfEven(2 * Get(degrees)[1], 45 * Get(degrees)[2]) % 16) + 1]

\* the coefficients of the Rothfusz regression, each <<sign, h, l>> for
\* sign * (h * 10^4 + l) / 10^8, in the order of the terms: 1, T, H, T*H, T*T,
\* H*H, T*T*H, T*H*H, T*T*H*H
Rothfusz ==
    <<<<-1, 423790, 0>>,
      <<1, 20490, 1523>>,
      <<1, 101433, 3127>>,
      <<-1, 2247, 5541>>,
      <<-1, 68, 3783>>,
      <<-1, 548, 1717>>,
      <<1, 12, 2874>>,
      <<1, 8, 5282>>,
      <<-1, 0, 199>>>>

Monomials(T, H) ==
    <<1, T, H, T * H, T * T, H * H, T * T * H, T * H * H, T * T * H * H>>

RECURSIVE SumTo(_, _)
SumTo(f, k) == IF k = 0 THEN 0 ELSE f[k] + SumTo(f, k - 1)

\* hi * 10^8 = Limb8 * 10^8 + Limb4 * 10^4 + Limb0, the products of the
\* coefficients and the monomials m = (m \div 10^4) * 10^4 + (m % 10^4)
Limb8(c, m) ==
    SumTo([i \in 1..9 |-> c[i][1] * c[i][2] * (m[i] \div 10000)], 9)

Limb4(c, m) ==
    SumTo([i \in 1..9 |->
              c[i][1] * ((c[i][2] * (m[i] % 10000)) + (c[i][3] * (m[i] \div 10000)))],
          9)

Limb0(c, m) == SumTo([i \in 1..9 |-> c[i][1] * c[i][3] * (m[i] % 10000)], 9)

\* round(whole + part / 10^7), a half going to the even integer
RoundTenths(whole, part) ==
    IF 2 * (part % 10000000) < 10000000 THEN whole + (part \div 10000000)
    ELSE IF 2 * (part % 10000000) > 10000000 THEN whole + (part \div 10000000) + 1
    ELSE IF (whole + (part \div 10000000)) % 2 = 0 THEN whole + (part \div 10000000)
    ELSE whole + (part \div 10000000) + 1

\* round(hi, 1) in tenths: 10 * hi = 10 * Limb8 + Limb4 / 10^3 + Limb0 / 10^7
HeatTenths(l8, l4, l0) ==
    RoundTenths((10 * l8) + (l4 \div 1000), ((l4 % 1000) * 10000) + l0)

\* round(hi, 1) for whole temp_f = T and humidity = H
RoundedHeatIndex(T, H) ==
    <<HeatTenths(Limb8(Rothfusz, Monomials(T, H)), Limb4(Rothfusz, Monomials(T, H)),
                 Limb0(Rothfusz, Monomials(T, H))), 10>>

\* x < k for the float x = <<n, d>>
RLess(x, k) == x[1] < k * x[2]

\* a heat index that is not the source's: the regression below the threshold too
heat_index_everywhere(temp_f, humidity) ==
    RoundedHeatIndex(temp_f[1] \div temp_f[2], humidity[1] \div humidity[2])

\* if temp_f < 80 or humidity < 40: return temp_f; the regression is computed
\* for whole temp_f and humidity
calculate_heat_index(temp_f, humidity) ==
    IF RLess(temp_f, 80) \/ RLess(humidity, 40) THEN temp_f
    ELSE RoundedHeatIndex(temp_f[1] \div temp_f[2], humidity[1] \div humidity[2])

\* the greatest common divisor of a >= 0 and b >= 0
RECURSIVE GCD(_, _)
GCD(a, b) == IF b = 0 THEN a ELSE GCD(b, a % b)

Abs(n) == IF n < 0 THEN 0 - n ELSE n

\* x in lowest terms
Lowest(x) == <<x[1] \div GCD(Abs(x[1]), x[2]), x[2] \div GCD(Abs(x[1]), x[2])>>

\* x * y for x and y in lowest terms, cancelling before the products
RTimes(x, y) ==
    <<(x[1] \div GCD(Abs(x[1]), y[2])) * (y[1] \div GCD(Abs(y[1]), x[2])),
      (x[2] \div GCD(Abs(y[1]), x[2])) * (y[2] \div GCD(Abs(x[1]), y[2]))>>

\* x / y for y > 0
ROver(x, y) == RTimes(x, <<y[2], y[1]>>)

\* round(whole + part / d), a half going to the even integer
RoundParts(whole, part, d) ==
    IF 2 * (part % d) < d THEN whole + (part \div d)
    ELSE IF 2 * (part % d) > d THEN whole + (part \div d) + 1
    ELSE IF (whole + (part \div d)) % 2 = 0 THEN whole + (part \div d)
    ELSE whole + (part \div d) + 1

\* round(x, 1) for scale = 10, round(x, 2) for scale = 100
RoundTo(x, scale) ==
    <<RoundParts(scale * (x[1] \div x[2]), scale * (x[1] % x[2]), x[2]), scale>>

\* the hPa of one unit: 33.8639, 1.33322, 68.9476; 1 for any other name
InHPa(unit) ==
    IF lower(unit) = <<"i", "n", "h", "g">> THEN <<338639, 10000>>
    ELSE IF lower(unit) = <<"m", "m", "h", "g">> THEN <<66661, 50000>>
    ELSE IF lower(unit) = <<"p", "s", "i">> THEN <<172369, 2500>>
    ELSE <<1, 1>>

\* round(pressure_hpa / factor, 2) for inhg and psi, round(..., 1) for mmhg and
\* for hPa
Decimals(unit) ==
    IF lower(unit) \in {<<"i", "n", "h", "g">>, <<"p", "s", "i">>} THEN 100 ELSE 10

convert_pressure_units(pressure, from_unit, to_unit) ==
    RoundTo(ROver(RTimes(Lowest(pressure), InHPa(from_unit)), InHPa(to_unit)),
            Decimals(to_unit))

\* TemperatureValidator.celsius_to_fahrenheit: (celsius * 9/5) + 32
celsius_to_fahrenheit(celsius) == RAdd(RDiv(RMul(celsius, 9), 5), 32)

\* TemperatureValidator.fahrenheit_to_celsius: (fahrenheit - 32) * 5/9
fahrenheit_to_celsius(fahrenheit) == RDiv(RMul(RSub(fahrenheit, 32), 5), 9)

\* calculate_dew_point: (a * temp_c) / (b + temp_c) divides by zero at temp_c =
\* -237.7, math.log(humidity / 100.0) raises ValueError for humidity <= 0; the
\* value round(dew_point, 1) rests on math.log and is kept as the term
\* of its arguments
calculate_dew_point(temp_c, humidity) ==
    IF REq(temp_c, <<-2377, 10>>) THEN Raise(Exc("ZeroDivisionError"))
    ELSE IF humidity[1] <= 0 THEN Raise(Exc("ValueError"))
    ELSE Return([dew_point |-> <<temp_c, humidity>>])

(***************************************************************************)
(* Inputs: the pages the fetch may return, the requests, the clock         *)
(***************************************************************************)
\* the longest page, in fragments
MaxFrags == 2
\* the length of the long run of digits
BigDigits == 310
\* the latest iteration of a forecast loop before which midnight may pass
MaxCross == 1
\* the date of the run, 2026-11-04 as an ordinal
Today == 739924
\* a day count beyond the range of dates
HugeDays == 3000000

Fragments ==
    <<<<"2", "5">>,
      <<"7">>,
      <<"deg", "C">>,
      <<"deg", "c">>,
      <<"deg", "F">>,
      <<"t", "e", "m", "p", "e", "r", "a", "t", "u", "r", "e", " ">>,
      <<" ", "d", "e", "g", "r", "e", "e", "s">>,
      <<"c", "e", "l", "s", "i", "u", "s">>,
      <<"\n">>,
      <<"S", "u", "n", "n", "y">>,
      <<"c", "l", "o", "u", "d", "y">>,
      <<"p", "a", "r", "t", "l", "y", " ">>,
      <<"h", "u", "m", "i", "d", "i", "t", "y", " ">>,
      <<"%">>>>

RECURSIVE Concat(_)
Concat(fs) == IF fs = <<>> THEN <<>> ELSE Fragments[Head(fs)] \o Concat(Tail(fs))

GeneratedTexts ==
    {Concat(fs) : fs \in UNION {[1..n -> 1..Len(Fragments)] : n \in 0..MaxFrags}}

\* spec.md section 8
ScenarioText ==
    <<"T", "e", "m", "p", "e", "r", "a", "t", "u", "r", "e", ":", " ", "2", "5",
      "deg", "C", " ", "S", "u", "n", "n", "y", " ", "w", "e", "a", "t", "h", "e",
      "r", " ", "H", "u", "m", "i", "d", "i", "t", "y", ":", " ", "6", "0", "%">>

\* tests/test_scraper.py, test_extract_condition_various_formats
SkiesText ==
    <<"p", "a", "r", "t", "l", "y", " ", "c", "l", "o", "u", "d", "y", " ",
      "s", "k", "i", "e", "s">>

\* readings in the lines of tests/test_scraper.py, test_full_scraping_workflow
ReadingsText ==
    <<"P", "r", "e", "s", "s", "u", "r", "e", ":", " ", "1", "0", "1", "3", ".",
      "5", " ", "m", "b", "\n", "W", "i", "n", "d", ":", " ", "1", "8", " ", "k",
      "m", "/", "h", " ", "S", "W", "\n", "V", "i", "s", "i", "b", "i", "l", "i",
      "t", "y", ":", " ", "8", " ", "k", "m", "\n", "U", "V", " ", "I", "n", "d",
      "e", "x", ":", " ", "7", "\n", "A", "i", "r", " ", "Q", "u", "a", "l", "i",
      "t", "y", ":", " ", "M", "o", "d", "e", "r", "a", "t", "e">>

\* a temperature of BigDigits digits
BigText == [i \in 1..BigDigits |-> "9"] \o <<"deg", "C">>

\* a reading in Fahrenheit beside the page's unit switch
SwitchText == <<"7", "2", "deg", "F", " ", "deg", "C">>

\* tests/test_scraper.py, test_extract_wind_direction_patterns
WindFromText == <<"W", "i", "n", "d", " ", "f", "r", "o", "m", " ", "N", "W">>

\* direction letters inside an unrelated word
NewsText == <<"N", "E", "W", "S">>

\* a humidity reading above 100
DampText ==
    <<"H", "u", "m", "i", "d", "i", "t", "y", ":", " ", "2", "5", "0", "%">>

SampleTexts ==
    {ScenarioText, SkiesText, ReadingsText, BigText, SwitchText, WindFromText,
     NewsText, DampText}

Texts == GeneratedTexts \cup SampleTexts

\* the city of a path /weather/{city} is never empty
PathCities == {"Pune"}

\* the JSON bodies of POST /weather/search
Bodies ==
    {[city |-> None, state |-> Some("TestState"), country |-> None],
     [city |-> Some(""), state |-> Some("TestState"), country |-> Some("")],
     [city |-> Some("Delhi"), state |-> Some("Delhi"), country |-> Some("India")]}

\* the pages an endpoint is run on: every text for GET /weather/{city}, the
\* sample texts for POST /weather/search, which calls the same scraper
Pages(ep) == IF ep = "get_weather" THEN Texts ELSE SampleTexts

\* the days query parameter is any int: tests/test_main.py asks for 0 and 100
DaysInputs == {-1, 0, 1, ForecastDays, 100, HugeDays}

\* the largest bearing, in degrees
MaxBearing == 360

\* the bearings passed to format_wind_direction: the quarters of a degree (the
\* boundaries between two labels are at odd multiples of 11.25), and None
Bearings == {Some(<<n, 4>>) : n \in 0..(4 * MaxBearing)} \cup {None}

\* the largest temperature (Fahrenheit) and humidity passed to the helpers
MaxTempF == 110
MaxHumidity == 100

\* the arguments of calculate_heat_index: whole values on both sides of the
\* threshold (80, 40), and values with decimals below it
HeatTemps == {<<T, 1>> : T \in 70..MaxTempF} \cup {<<70123, 1000>>, <<799, 10>>}
HeatHumidities == {<<H, 1>> : H \in 30..MaxHumidity} \cup {<<399, 10>>}

\* the temperatures passed to the conversions
ConversionTemps == {<<T, 1>> : T \in (-40)..MaxTempF} \cup {<<365, 10>>}

\* the pressures passed to convert_pressure_units, each with its unit, and the
\* names of the units
Pressures ==
    {<<<<2992, 100>>, <<"i", "n", "H", "g">>>>,
     <<<<30, 1>>, <<"i", "n", "H", "g">>>>,
     <<<<760, 1>>, <<"m", "m", "h", "g">>>>,
     <<<<7505, 10>>, <<"m", "m", "H", "g">>>>,
     <<<<101325, 100>>, <<"h", "P", "a">>>>,
     <<<<1013, 1>>, <<"m", "b">>>>,
     <<<<147, 10>>, <<"P", "S", "I">>>>,
     <<<<15, 1>>, <<"p", "s", "i">>>>,
     <<<<0, 1>>, <<"p", "s", "i">>>>}

PressureUnits ==
    {<<"i", "n", "H", "g">>, <<"m", "m", "h", "g">>, <<"P", "S", "I">>,
     <<"h", "P", "a">>, <<"m", "b">>}

\* the arguments of calculate_dew_point: every whole humidity from 0
DewTemps == {<<-2377, 10>>, <<-40, 1>>, <<0, 1>>, <<25, 1>>, <<365, 10>>}
DewHumidities == {<<H, 1>> : H \in 0..MaxHumidity}

FailStatuses == {404, 500}
FetchErrors == {"ClientError", "ServerTimeoutError"}

(***************************************************************************)
(* utils/validators.py and the validator of utils/helpers.py.  A str is    *)
(* the sequence of its characters.                                         *)
(***************************************************************************)
Max(S) == CHOOSE x \in S : \A y \in S : x >= y

\* str.strip()
strip(s) ==
    IF \A i \in 1..Len(s) : IsSpace(s[i]) THEN <<>>
    ELSE SubSeq(s, Min({i \in 1..Len(s) : ~IsSpace(s[i])}),
                Max({i \in 1..Len(s) : ~IsSpace(s[i])}))

\* re.match(r"^[a-zA-Z\s\-'\.]+$", s)
NamePattern(s) ==
    /\ Len(s) >= 1
    /\ \A i \in 1..Len(s) :
        IsAlpha(s[i]) \/ IsSpace(s[i]) \/ s[i] \in {"-", "'", "."}

\* helpers.validate_city_name
validate_city_name(city) ==
    IF city = <<>> \/ Len(strip(city)) < 2 THEN FALSE
    ELSE NamePattern(strip(city))

\* CityValidator.validate_city_name
CityValidator_validate_city_name(city) ==
    IF city = <<>> \/ Len(strip(city)) < 2 THEN FALSE
    ELSE NamePattern(strip(city))

\* the positions of s that " ".join(s.split()) keeps: the characters of the
\* words, and the first white space after a word that another word follows
Kept(s) ==
    {i \in 1..Len(s) :
        \/ ~IsSpace(s[i])
        \/ /\ i > 1
           /\ ~IsSpace(s[i - 1])
           /\ \E j \in (i + 1)..Len(s) : ~IsSpace(s[j])}

\* " ".join(s.split())
JoinSplit(s) ==
    [k \in 1..Cardinality(Kept(s)) |->
        IF IsSpace(s[CHOOSE i \in Kept(s) :
                        Cardinality({j \in Kept(s) : j <= i}) = k])
        THEN " "
        ELSE s[CHOOSE i \in Kept(s) :
                 Cardinality({j \in Kept(s) : j <= i}) = k]]

\* a sanitizer that is not the source's: title() alone
TitleOnly(city) == title(city)

\* CityValidator.sanitize_city_name
sanitize_city_name(city) ==
    IF city = <<>> THEN <<>> ELSE title(JoinSplit(strip(city)))

\* the validator of state and of country: None is stored as it is
OptionalName(v) ==
    IF v = None THEN Return(v)
    ELSE IF Len(Get(v)) > 100 THEN Raise(Exc("ValidationError"))
    ELSE IF Get(v) # <<>> /\ ~CityValidator_validate_city_name(Get(v))
    THEN Raise(Exc("ValidationError"))
    ELSE Return(IF Get(v) # <<>> THEN Some(sanitize_city_name(Get(v))) ELSE v)

\* LocationValidator(city=..., state=..., country=...): the lengths of Field,
\* then the three validators; the object stored, or the ValidationError
LocationValidator(c, st, co) ==
    IF Len(c) < 2 \/ Len(c) > 100 THEN Raise(Exc("ValidationError"))
    ELSE IF ~CityValidator_validate_city_name(c) THEN Raise(Exc("ValidationError"))
    ELSE IF OptionalName(st).raised THEN OptionalName(st)
    ELSE IF OptionalName(co).raised THEN OptionalName(co)
    ELSE Return([city |-> sanitize_city_name(c),
                 state |-> OptionalName(st).value,
                 country |-> OptionalName(co).value])

\* the longest generated name
MaxName == 4

\* a lower-case and an upper-case letter, two white spaces, an apostrophe and
\* a digit
NameChars == {"a", "B", " ", "\t", "'", "1"}

\* names with the hyphen and the dot, and of one letter
SampleNames ==
    {<<"A">>,
     <<"s", "t", ".", " ", " ", "j", "o", "h", "n", "'", "s">>,
     <<" ", "w", "i", "n", "s", "t", "o", "n", "-", "s", "a", "l", "e", "m", "\n">>,
     <<"P", "u", "n", "e", "2">>}

Names == UNION {[1..n -> NameChars] : n \in 0..MaxName} \cup SampleNames

\* the states and countries given to LocationValidator
OptionalNames ==
    {None, Some(<<>>), Some(<<"m", " ", " ", "h">>), Some(<<"4", "2">>)}

(***************************************************************************)
(* The condition normalizers of utils/helpers.py and utils/validators.py   *)
(***************************************************************************)
Unknown == <<"U", "n", "k", "n", "o", "w", "n">>

\* condition_mapping: a dict, iterated in the order it is written in
condition_mapping ==
    <<
      [normalized |->
          <<"c", "l", "e", "a", "r">>,
       keywords |->
         <<<<"c", "l", "e", "a", "r">>,
           <<"s", "u", "n", "n", "y">>,
           <<"b", "r", "i", "g", "h", "t">>>>],
      [normalized |->
          <<"p", "a", "r", "t", "l", "y", " ", "c", "l", "o", "u", "d", "y">>,
       keywords |->
         <<<<"p", "a", "r", "t", "l", "y", " ", "c", "l", "o", "u", "d", "y">>,
           <<"p", "a", "r", "t", "l", "y", " ", "s", "u", "n", "n", "y">>,
           <<"f", "e", "w", " ", "c", "l", "o", "u", "d", "s">>>>],
      [normalized |->
          <<"m", "o", "s", "t", "l", "y", " ", "c", "l", "o", "u", "d", "y">>,
       keywords |->
         <<<<"m", "o", "s", "t", "l", "y", " ", "c", "l", "o", "u", "d", "y">>,
           <<"b", "r", "o", "k", "e", "n", " ", "c", "l", "o", "u", "d", "s">>>>],
      [normalized |->
          <<"c", "l", "o", "u", "d", "y">>,
       keywords |->
         <<<<"c", "l", "o", "u", "d", "y">>,
           <<"o", "v", "e", "r", "c", "a", "s", "t">>,
           <<"g", "r", "a", "y">>>>],
      [normalized |->
          <<"r", "a", "i", "n">>,
       keywords |->
         <<<<"r", "a", "i", "n">>,
           <<"r", "a", "i", "n", "y">>,
           <<"p", "r", "e", "c", "i", "p", "i", "t", "a", "t", "i", "o", "n">>>>],
      [normalized |->
          <<"d", "r", "i", "z", "z", "l", "e">>,
       keywords |->
         <<<<"d", "r", "i", "z", "z", "l", "e">>,
           <<"l", "i", "g", "h", "t", " ", "r", "a", "i", "n">>,
           <<"s", "p", "r", "i", "n", "k", "l", "e">>>>],
      [normalized |->
          <<"t", "h", "u", "n", "d", "e", "r", "s", "t", "o", "r", "m">>,
       keywords |->
         <<<<"t", "h", "u", "n", "d", "e", "r", "s", "t", "o", "r", "m">>,
           <<"t", "h", "u", "n", "d", "e", "r">>,
           <<"s", "t", "o", "r", "m">>>>],
      [normalized |->
          <<"s", "n", "o", "w">>,
       keywords |->
         <<<<"s", "n", "o", "w">>,
           <<"s", "n", "o", "w", "y">>,
           <<"s", "n", "o", "w", "f", "a", "l", "l">>>>],
      [normalized |->
          <<"f", "o", "g">>,
       keywords |->
         <<<<"f", "o", "g">>,
           <<"f", "o", "g", "g", "y">>,
           <<"m", "i", "s", "t">>,
           <<"m", "i", "s", "t", "y">>>>],
      [normalized |->
          <<"w", "i", "n", "d">>,
       keywords |->
         <<<<"w", "i", "n", "d", "y">>,
           <<"b", "r", "e", "e", "z", "y">>,
           <<"g", "u", "s", "t", "y">>>>]
    >>

\* parse_weather_condition: the label of the first entry of condition_mapping
\* one of whose keywords is in the lower-cased text
parse_weather_condition(condition_text) ==
    IF condition_text = <<>> THEN Unknown
    ELSE IF \E n \in 1..Len(condition_mapping) :
              \E k \in 1..Len(condition_mapping[n].keywords) :
                Contains(lower(condition_text), condition_mapping[n].keywords[k])
    THEN title(condition_mapping[
            Min({n \in 1..Len(condition_mapping) :
                   \E k \in 1..Len(condition_mapping[n].keywords) :
                     Contains(lower(condition_text),
                              condition_mapping[n].keywords[k])})].normalized)
    ELSE title(condition_text)

\* VALID_CONDITIONS, a set: its members in the order they are written in
VALID_CONDITIONS ==
    <<
      <<"c", "l", "e", "a", "r">>,
      <<"s", "u", "n", "n", "y">>,
      <<"p", "a", "r", "t", "l", "y", " ", "c", "l", "o", "u", "d", "y">>,
      <<"m", "o", "s", "t", "l", "y", " ", "c", "l", "o", "u", "d", "y">>,
      <<"c", "l", "o", "u", "d", "y">>,
      <<"o", "v", "e", "r", "c", "a", "s", "t">>,
      <<"l", "i", "g", "h", "t", " ", "r", "a", "i", "n">>,
      <<"r", "a", "i", "n">>,
      <<"h", "e", "a", "v", "y", " ", "r", "a", "i", "n">>,
      <<"d", "r", "i", "z", "z", "l", "e">>,
      <<"s", "h", "o", "w", "e", "r", "s">>,
      <<"t", "h", "u", "n", "d", "e", "r", "s", "t", "o", "r", "m">>,
      <<"s", "n", "o", "w">>,
      <<"l", "i", "g", "h", "t", " ", "s", "n", "o", "w">>,
      <<"h", "e", "a", "v", "y", " ", "s", "n", "o", "w">>,
      <<"s", "l", "e", "e", "t">>,
      <<"f", "o", "g">>,
      <<"m", "i", "s", "t">>,
      <<"h", "a", "z", "e">>,
      <<"w", "i", "n", "d", "y">>,
      <<"c", "a", "l", "m">>
    >>

\* iteration orders of the set VALID_CONDITIONS, which the hashes of its
\* strings decide anew in each process: those of CPython 3.11 with
\* PYTHONHASHSEED=0 and with PYTHONHASHSEED=3, as indices into the members
HashOrders ==
    {<<12, 8, 21, 4, 9, 5, 16, 11, 14, 3, 2, 6, 13, 18, 7, 17, 1, 19, 15, 20, 10>>,
     <<3, 9, 1, 12, 2, 7, 13, 11, 4, 8, 17, 16, 18, 21, 10, 14, 19, 15, 6, 5, 20>>}

\* valid_condition in normalized or normalized in valid_condition
PartialMatch(valid_condition, normalized) ==
    Contains(normalized, valid_condition) \/ Contains(valid_condition, normalized)

\* WeatherConditionValidator.normalize_condition in a process that iterates
\* over VALID_CONDITIONS in the given order
normalize_condition(condition, order) ==
    IF condition = <<>> THEN Unknown
    ELSE IF \E v \in 1..Len(VALID_CONDITIONS) :
              VALID_CONDITIONS[v] = strip(lower(condition))
    THEN title(strip(lower(condition)))
    ELSE IF \E k \in 1..Len(order) :
              PartialMatch(VALID_CONDITIONS[order[k]], strip(lower(condition)))
    THEN title(VALID_CONDITIONS[
            order[Min({k \in 1..Len(order) :
                         PartialMatch(VALID_CONDITIONS[order[k]],
                                      strip(lower(condition)))})]])
    ELSE title(condition)

\* the texts given to the two normalizers: every keyword of condition_mapping,
\* every valid condition, the empty text and some others
ConditionTexts ==
    UNION {{condition_mapping[n].keywords[k] :
               k \in 1..Len(condition_mapping[n].keywords)} :
           n \in 1..Len(condition_mapping)} \cup
    {VALID_CONDITIONS[v] : v \in 1..Len(VALID_CONDITIONS)} \cup
    {<<>>,
     <<"P", "a", "r", "t", "l", "y", " ", "S", "u", "n", "n", "y">>,
     <<"h", "a", "i", "l">>,
     <<" ", "S", "u", "n", "n", "y", " ">>,
     <<"r", "a", "i", "n", " ", "s", "h", "o", "w", "e", "r", "s">>,
     <<"R", "a", "i", "n", " ", "S", "h", "o", "w", "e", "r", "s">>,
     <<"l", "i", "g", "h", "t">>,
     <<" ", " ">>,
     <<"h", "e", "a", "v", "y", " ", "t", "h", "u", "n", "d", "e", "r", "s",
       "t", "o", "r", "m">>}

\* WeatherScraper(): the object main.py constructs once, at import
WeatherScraper ==
    [base_urls |->
        [bing |-> "https://www.bing.com/search?q={city}+weather",
         accuweather |-> "https://www.accuweather.com/en/in/{city}/weather-forecast",
         weather_com |-> "https://weather.com/en-IN/weather/tenday/l/{city}"],
     headers |->
        [User_Agent |-> "Mozilla/5.0 (Windows NT 10.0; Win64; x64) AppleWebKit/537.36 (KHTML, like Gecko) Chrome/91.0.4472.124 Safari/537.36",
         Accept |-> "text/html,application/xhtml+xml,application/xml;q=0.9,image/webp,*/*;q=0.8",
         Accept_Language |-> "en-US,en;q=0.5",
         Accept_Encoding |-> "gzip, deflate",
         Connection |-> "keep-alive"]]

\* the two requests handled together
Callers == {1, 2}

\* the local variables of a call that has not started
NewCall ==
    [pc |-> "idle", call |-> "none", city |-> "", state |-> None,
     country |-> None, days |-> 0, url |-> <<>>, headers |-> None,
     fetch |-> None, page |-> None, cross |-> 0, result |-> None]

\* the cities, states and day counts of the two requests, and their pages
PairCities == {"Pune", "Delhi"}
PairStates == {None, Some("MH")}
PairDays == {0, 1, ForecastDays, HugeDays}
PairTexts == {ScenarioText, SkiesText}

(***************************************************************************)
(* The state machine: one request, from the call of the endpoint to its    *)
(* response; the steps are the handler's await points                      *)
(***************************************************************************)
VARIABLES
    pc,         \* "idle", "get" (awaiting session.get), "text" (awaiting
                \* response.text()), "done"
    endpoint,   \* the endpoint called
    city, state, country, days,     \* its arguments, None when not given
    fetches,    \* the session.get calls issued
    fetch,      \* what session.get gave, None before it ends
    page,       \* what response.text() gave, None when it was not awaited
    result,     \* what the scraper returned or raised, None before it ends
    response,   \* the response sent, None before it is sent
    args,       \* the arguments of a call of a function of utils, None otherwise
    scraper,    \* the module-level WeatherScraper: its base_urls and headers
    calls       \* the calls running on it together: each one's local variables

vars ==
    <<pc, endpoint, city, state, country, days, fetches, fetch, page, result,
      response, args, scraper, calls>>

Init ==
    /\ pc = "idle"
    /\ endpoint = "none"
    /\ city = None
    /\ state = None
    /\ country = None
    /\ days = None
    /\ fetches = 0
    /\ fetch = None
    /\ page = None
    /\ result = None
    /\ response = None
    /\ args = None
    /\ scraper = WeatherScraper
    /\ calls = [i \in Callers |-> NewCall]

\* what the endpoint called answers to the scraper's outcome
Answer(call) ==
    IF endpoint = "get_weather" THEN get_weather(call) ELSE search_weather(call)

\* GET /weather/{city}, up to the await of session.get
GetWeather ==
    /\ pc = "idle"
    /\ \E c \in PathCities : city' = Some(c)
    /\ endpoint' = "get_weather"
    /\ pc' = "get"
    /\ fetches' = fetches + 1
    /\ UNCHANGED <<scraper, calls, args, state, country, days, fetch, page, result, response>>

\* POST /weather/search with a body that validates, up to the await of session.get
SearchWeather ==
    /\ pc = "idle"
    /\ \E body \in Bodies :
        /\ LocationRequestValid(body)
        /\ city' = body.city
        /\ state' = body.state
        /\ country' = body.country
    /\ endpoint' = "search_weather"
    /\ pc' = "get"
    /\ fetches' = fetches + 1
    /\ UNCHANGED <<scraper, calls, args, days, fetch, page, result, response>>

\* POST /weather/search with a body that does not validate: 422, no call
SearchInvalid ==
    /\ pc = "idle"
    /\ \E body \in Bodies :
        /\ ~LocationRequestValid(body)
        /\ city' = body.city
        /\ state' = body.state
        /\ country' = body.country
    /\ endpoint' = "search_weather"
    /\ response' = Some(ValidationError)
    /\ pc' = "done"
    /\ UNCHANGED <<scraper, calls, args, days, fetches, fetch, page, result>>

\* session.get returns status 200: on to the await of response.text()
FetchOk ==
    /\ pc = "get"
    /\ fetch' = Some(GotStatus(200))
    /\ pc' = "text"
    /\ UNCHANGED <<scraper, calls, args, endpoint, city, state, country, days, fetches, page, result,
                   response>>

\* session.get returns another status or raises: the scraper ends, the endpoint
\* answers
FetchFails ==
    /\ pc = "get"
    /\ \E f \in {GotStatus(st) : st \in FailStatuses}
                \cup {GetRaised(e) : e \in FetchErrors} :
        /\ fetch' = Some(f)
        /\ result' = Some(scrape_weather_data(f, NoBody, Get(city), state, country,
                                              Today, 0))
    /\ response' = Some(Answer(Get(result')))
    /\ pc' = "done"
    /\ UNCHANGED <<scraper, calls, args, endpoint, city, state, country, days, fetches, page>>

\* response.text() returns the page: the scraper parses it, the endpoint answers
ReadText ==
    /\ pc = "text"
    /\ \E t \in Pages(endpoint), cross \in 0..MaxCross :
        /\ page' = Some(GotText(t))
        /\ result' = Some(scrape_weather_data(Get(fetch), GotText(t), Get(city),
                                              state, country, Today, cross))
    /\ response' = Some(Answer(Get(result')))
    /\ pc' = "done"
    /\ UNCHANGED <<scraper, calls, args, endpoint, city, state, country, days, fetches, fetch>>

\* response.text() raises
ReadFails ==
    /\ pc = "text"
    /\ \E e \in FetchErrors :
        /\ page' = Some(TextRaised(e))
        /\ result' = Some(scrape_weather_data(Get(fetch), TextRaised(e), Get(city),
                                              state, country, Today, 0))
    /\ response' = Some(Answer(Get(result')))
    /\ pc' = "done"
    /\ UNCHANGED <<scraper, calls, args, endpoint, city, state, country, days, fetches, fetch>>

\* GET /weather/{city}/forecast: no await that suspends; one step
GetWeatherForecast ==
    /\ pc = "idle"
    /\ \E c \in PathCities, d \in DaysInputs, cross \in 0..MaxCross :
        /\ city' = Some(c)
        /\ days' = Some(d)
        /\ result' = Some(Return(scrape_forecast_data(c, d, Today, cross)))
    /\ response' = Some(get_weather_forecast(Get(result')))
    /\ endpoint' = "get_weather_forecast"
    /\ pc' = "done"
    /\ UNCHANGED <<scraper, calls, args, state, country, fetches, fetch, page>>

\* GET /weather/{city} with scrape_weather_data replaced by a double that
\* raises Exception (side_effect), as the endpoint's server-error test does
GetWeatherScraperRaises ==
    /\ pc = "idle"
    /\ \E c \in PathCities : city' = Some(c)
    /\ result' = Some(Raise(Exc("Exception")))
    /\ response' = Some(get_weather(Get(result')))
    /\ endpoint' = "get_weather"
    /\ pc' = "done"
    /\ UNCHANGED <<scraper, calls, args, state, country, days, fetches, fetch, page>>

\* a call of helpers.validate_city_name
ValidateCityName ==
    /\ pc = "idle"
    /\ \E c \in Names :
        /\ args' = Some(<<c>>)
        /\ result' = Some(Return(validate_city_name(c)))
    /\ endpoint' = "validate_city_name"
    /\ pc' = "done"
    /\ UNCHANGED <<scraper, calls, city, state, country, days, fetches, fetch, page,
                   response>>

\* a call of CityValidator.validate_city_name
CityValidatorValidateCityName ==
    /\ pc = "idle"
    /\ \E c \in Names :
        /\ args' = Some(<<c>>)
        /\ result' = Some(Return(CityValidator_validate_city_name(c)))
    /\ endpoint' = "CityValidator.validate_city_name"
    /\ pc' = "done"
    /\ UNCHANGED <<scraper, calls, city, state, country, days, fetches, fetch, page,
                   response>>

\* a call of CityValidator.sanitize_city_name
SanitizeCityName ==
    /\ pc = "idle"
    /\ \E c \in Names :
        /\ args' = Some(<<c>>)
        /\ result' = Some(Return(sanitize_city_name(c)))
    /\ endpoint' = "sanitize_city_name"
    /\ pc' = "done"
    /\ UNCHANGED <<scraper, calls, city, state, country, days, fetches, fetch, page,
                   response>>

\* the construction of a LocationValidator
ConstructLocationValidator ==
    /\ pc = "idle"
    /\ \E c \in Names, st \in OptionalNames, co \in OptionalNames :
        /\ args' = Some(<<c, st, co>>)
        /\ result' = Some(LocationValidator(c, st, co))
    /\ endpoint' = "LocationValidator"
    /\ pc' = "done"
    /\ UNCHANGED <<scraper, calls, city, state, country, days, fetches, fetch, page,
                   response>>

\* a call of parse_weather_condition
ParseWeatherCondition ==
    /\ pc = "idle"
    /\ \E condition_text \in ConditionTexts :
        /\ args' = Some(<<condition_text>>)
        /\ result' = Some(Return(parse_weather_condition(condition_text)))
    /\ endpoint' = "parse_weather_condition"
    /\ pc' = "done"
    /\ UNCHANGED <<scraper, calls, city, state, country, days, fetches, fetch, page,
                   response>>

\* a call of WeatherConditionValidator.normalize_condition, in a process with
\* some iteration order of VALID_CONDITIONS
NormalizeCondition ==
    /\ pc = "idle"
    /\ \E condition \in ConditionTexts, order \in HashOrders :
        /\ args' = Some(<<condition, order>>)
        /\ result' = Some(Return(normalize_condition(condition, order)))
    /\ endpoint' = "normalize_condition"
    /\ pc' = "done"
    /\ UNCHANGED <<scraper, calls, city, state, country, days, fetches, fetch, page,
                   response>>

\* a call of format_wind_direction
FormatWindDirection ==
    /\ pc = "idle"
    /\ \E degrees \in Bearings :
        /\ args' = Some(<<degrees>>)
        /\ result' = Some(Return(format_wind_direction(degrees)))
    /\ endpoint' = "format_wind_direction"
    /\ pc' = "done"
    /\ UNCHANGED <<scraper, calls, city, state, country, days, fetches, fetch, page, response>>

\* a call of calculate_heat_index
CalculateHeatIndex ==
    /\ pc = "idle"
    /\ \E temp_f \in HeatTemps, humidity \in HeatHumidities :
        /\ args' = Some(<<temp_f, humidity>>)
        /\ result' = Some(Return(calculate_heat_index(temp_f, humidity)))
    /\ endpoint' = "calculate_heat_index"
    /\ pc' = "done"
    /\ UNCHANGED <<scraper, calls, city, state, country, days, fetches, fetch, page, response>>

\* a call of TemperatureValidator.celsius_to_fahrenheit
CelsiusToFahrenheit ==
    /\ pc = "idle"
    /\ \E celsius \in ConversionTemps :
        /\ args' = Some(<<celsius>>)
        /\ result' = Some(Return(celsius_to_fahrenheit(celsius)))
    /\ endpoint' = "celsius_to_fahrenheit"
    /\ pc' = "done"
    /\ UNCHANGED <<scraper, calls, city, state, country, days, fetches, fetch, page, response>>

\* a call of TemperatureValidator.fahrenheit_to_celsius
FahrenheitToCelsius ==
    /\ pc = "idle"
    /\ \E fahrenheit \in ConversionTemps :
        /\ args' = Some(<<fahrenheit>>)
        /\ result' = Some(Return(fahrenheit_to_celsius(fahrenheit)))
    /\ endpoint' = "fahrenheit_to_celsius"
    /\ pc' = "done"
    /\ UNCHANGED <<scraper, calls, city, state, country, days, fetches, fetch, page, response>>

\* a call of convert_pressure_units
ConvertPressureUnits ==
    /\ pc = "idle"
    /\ \E p \in Pressures, to_unit \in PressureUnits :
        /\ args' = Some(<<p[1], p[2], to_unit>>)
        /\ result' = Some(Return(convert_pressure_units(p[1], p[2], to_unit)))
    /\ endpoint' = "convert_pressure_units"
    /\ pc' = "done"
    /\ UNCHANGED <<scraper, calls, city, state, country, days, fetches, fetch, page, response>>

\* a call of calculate_dew_point
CalculateDewPoint ==
    /\ pc = "idle"
    /\ \E temp_c \in DewTemps, h \in DewHumidities :
        /\ args' = Some(<<temp_c, h>>)
        /\ result' = Some(calculate_dew_point(temp_c, h))
    /\ endpoint' = "calculate_dew_point"
    /\ pc' = "done"
    /\ UNCHANGED <<scraper, calls, city, state, country, days, fetches, fetch, page, response>>

Next ==
    \/ GetWeather
    \/ SearchWeather
    \/ SearchInvalid
    \/ FetchOk
    \/ FetchFails
    \/ ReadText
    \/ ReadFails
    \/ GetWeatherForecast
    \/ GetWeatherScraperRaises
    \/ ValidateCityName
    \/ CityValidatorValidateCityName
    \/ SanitizeCityName
    \/ ConstructLocationValidator
    \/ ParseWeatherCondition
    \/ NormalizeCondition
    \/ FormatWindDirection
    \/ CalculateHeatIndex
    \/ CelsiusToFahrenheit
    \/ FahrenheitToCelsius
    \/ ConvertPressureUnits
    \/ CalculateDewPoint

Spec == Init /\ [][Next]_vars

(***************************************************************************)
(* Two calls on the one scraper.  A step runs one call from an await point *)
(* to the next; the steps of the two calls interleave in every order.      *)
(***************************************************************************)
\* the variables of the single request, which the two calls leave alone
request ==
    <<pc, endpoint, city, state, country, days, fetches, fetch, page, result,
      response, args>>

\* the local variables a call reads are the other call's
LocalsOfOther(c, i) == c[3 - i]

\* the local variables call i reads: its own parameters and what it has bound
\* so far
Locals(c, i) == c[i]

\* url = self.base_urls['bing'].format(city=search_query.replace(' ', '+')):
\* the template and the words of search_query
Url(self, c, st) ==
    <<self.base_urls.bing,
      IF st # None /\ Get(st) # "" THEN <<c, Get(st), "weather">>
      ELSE <<c, "weather">>>>

\* scrape_weather_data up to the await of session.get(url)
ScrapeStart(i) ==
    /\ Locals(calls, i).pc = "idle"
    /\ \E c \in PairCities, st \in PairStates :
        calls' = [calls EXCEPT ![i] =
                    [calls[i] EXCEPT
                        !.pc = "get", !.call = "scrape_weather_data",
                        !.city = c, !.state = st,
                        !.url = Url(scraper, c, st),
                        !.headers = Some(scraper.headers)]]
    /\ UNCHANGED <<request, scraper>>

\* session.get returns status 200: on to the await of response.text()
ScrapeGot(i) ==
    /\ Locals(calls, i).pc = "get"
    /\ calls' = [calls EXCEPT ![i] =
                    [calls[i] EXCEPT
                        !.pc = "text", !.fetch = Some(GotStatus(200))]]
    /\ UNCHANGED <<request, scraper>>

\* session.get returns another status or raises: the call ends
ScrapeGetFails(i) ==
    /\ Locals(calls, i).pc = "get"
    /\ \E f \in {GotStatus(st) : st \in FailStatuses}
                \cup {GetRaised(e) : e \in FetchErrors} :
        calls' = [calls EXCEPT ![i] =
                    [calls[i] EXCEPT
                        !.pc = "done", !.fetch = Some(f),
                        !.result = Some(scrape_weather_data(
                                      f, NoBody, Locals(calls, i).city,
                                      Locals(calls, i).state,
                                      Locals(calls, i).country, Today, 0))]]
    /\ UNCHANGED <<request, scraper>>

\* response.text() returns the page: the call parses it and ends
ScrapeText(i) ==
    /\ Locals(calls, i).pc = "text"
    /\ \E t \in PairTexts, cross \in 0..MaxCross :
        calls' = [calls EXCEPT ![i] =
                    [calls[i] EXCEPT
                        !.pc = "done", !.page = Some(GotText(t)),
                        !.cross = cross,
                        !.result = Some(scrape_weather_data(
                                      Get(Locals(calls, i).fetch), GotText(t),
                                      Locals(calls, i).city,
                                      Locals(calls, i).state,
                                      Locals(calls, i).country, Today, cross))]]
    /\ UNCHANGED <<request, scraper>>

\* response.text() raises: the call ends
ScrapeTextFails(i) ==
    /\ Locals(calls, i).pc = "text"
    /\ \E e \in FetchErrors :
        calls' = [calls EXCEPT ![i] =
                    [calls[i] EXCEPT
                        !.pc = "done", !.page = Some(TextRaised(e)),
                        !.result = Some(scrape_weather_data(
                                      Get(Locals(calls, i).fetch), TextRaised(e),
                                      Locals(calls, i).city,
                                      Locals(calls, i).state,
                                      Locals(calls, i).country, Today, 0))]]
    /\ UNCHANGED <<request, scraper>>

\* scrape_forecast_data: it awaits nothing, so it runs in one step
ScrapeForecast(i) ==
    /\ Locals(calls, i).pc = "idle"
    /\ \E c \in PairCities, d \in PairDays, cross \in 0..MaxCross :
        calls' = [calls EXCEPT ![i] =
                    [calls[i] EXCEPT
                        !.pc = "done", !.call = "scrape_forecast_data",
                        !.city = c, !.days = d, !.cross = cross,
                        !.result = Some(Return(scrape_forecast_data(
                                      c, d, Today, cross)))]]
    /\ UNCHANGED <<request, scraper>>

NextPair ==
    \/ \E i \in Callers : ScrapeStart(i)
    \/ \E i \in Callers : ScrapeGot(i)
    \/ \E i \in Callers : ScrapeGetFails(i)
    \/ \E i \in Callers : ScrapeText(i)
    \/ \E i \in Callers : ScrapeTextFails(i)
    \/ \E i \in Callers : ScrapeForecast(i)

SpecPair == Init /\ [][NextPair]_vars

(***************************************************************************)
(* What a finished request shows                                           *)
(***************************************************************************)
\* the scraper was called and its call has ended
Called == pc = "done" /\ result # None

\* the scraper returned None
ReturnedNone == Called /\ ~Get(result).raised /\ Get(result).value = None

\* response.text() gave a page, which the scraper parsed
Parsed == Called /\ page # None /\ Get(page).exc = NoExc

\* the text the matchers read
text_content == Get(page).text

\* _extract_current_weather returned a record, which is in the response
Extracted == Parsed /\ ~Get(result).raised /\ Get(result).value # None

current_weather == Get(Get(result).value).current_weather

NotFoundDetails ==
    {"Weather data not found for {city}", "Weather data not found",
     "Forecast data not found for {city}"}

(***************************************************************************)
(* Properties                                                              *)
(***************************************************************************)
\* C1: when the scraper returns None (scrape_weather_data for GET
\* /weather/{city} and POST /weather/search, scrape_forecast_data for GET
\* /weather/{city}/forecast), the response has status 404 and a "not found"
\* detail; it is never a 500.
C1_NoneIsNotFound ==
    ReturnedNone =>
        /\ Get(response).status_code = 404
        /\ Get(response).detail \in NotFoundDetails

\* C2: POST /weather/search with city "" is answered 422 and the scraper is
\* never called: no session.get is issued for a request whose city is "".
C2_EmptyCityRejected ==
    (endpoint = "search_weather" /\ city = Some("")) =>
        /\ fetches = 0
        /\ result = None
        /\ pc = "done" => Get(response).status_code = 422

\* the value was read as Celsius: temperature = v, temperature_fahrenheit = v*9/5+32
TreatedCelsius(cw, v) ==
    /\ REq(cw.temperature, <<v, 1>>)
    /\ REq(Get(cw.temperature_fahrenheit), <<(9 * v) + 160, 5>>)

\* the value was read as Fahrenheit: temperature_fahrenheit = v,
\* temperature = (v-32)*5/9
TreatedFahrenheit(cw, v) ==
    /\ REq(Get(cw.temperature_fahrenheit), <<v, 1>>)
    /\ REq(cw.temperature, <<5 * (v - 32), 9>>)

\* the number a group of digits denotes
Number(group) == IntValue(int(group))

\* C3: the unit of the extracted temperature is decided by the pattern that
\* produced the first match: the value is treated as Celsius exactly when the
\* Celsius-marker pattern is the one that matched or the word 'celsius' is in
\* the text; in every other case it is treated as Fahrenheit.
C3_UnitByPattern ==
    (Extracted /\ FirstPattern(temp_patterns(text_content)) # 0) =>
        IF \/ FirstPattern(temp_patterns(text_content)) = 1
           \/ Contains(lower(text_content), <<"c", "e", "l", "s", "i", "u", "s">>)
        THEN TreatedCelsius(current_weather,
                            Number(Get(FirstMatch(temp_patterns(text_content)))))
        ELSE TreatedFahrenheit(current_weather,
                               Number(Get(FirstMatch(temp_patterns(text_content)))))

\* the starts of the bare integers of s that a Celsius marker follows at once
CelsiusMarked(s) ==
    {i \in 1..Len(s) :
        /\ IsDigit(s[i])
        /\ i = 1 \/ ~IsDigit(s[i - 1])
        /\ OccursAt(s, <<"deg", "C">>, RunEnd(s, i) + 1)}

\* C4: for every text that contains a bare integer immediately followed by a
\* Celsius marker, _extract_current_weather returns a record whose temperature
\* is that integer and whose temperature_fahrenheit is integer*9/5+32.
C4_CelsiusMarkerWins ==
    (Parsed /\ CelsiusMarked(text_content) # {}) =>
        /\ Extracted
        /\ \E i \in CelsiusMarked(text_content) :
            TreatedCelsius(current_weather, Number(RunAt(text_content, i)))

\* the labels of the eight condition keywords, in the order of the list
Labels ==
    <<<<"S", "u", "n", "n", "y">>,
      <<"C", "l", "o", "u", "d", "y">>,
      <<"R", "a", "i", "n", "y">>,
      <<"S", "t", "o", "r", "m", "y">>,
      <<"C", "l", "e", "a", "r">>,
      <<"O", "v", "e", "r", "c", "a", "s", "t">>,
      <<"P", "a", "r", "t", "l", "y", " ", "C", "l", "o", "u", "d", "y">>,
      <<"M", "o", "s", "t", "l", "y", " ", "C", "l", "o", "u", "d", "y">>>>

\* keyword k of the list occurs in the text, whatever its case
Present(k) == Contains(lower(text_content), lower(Labels[k]))

\* none of the four temperature patterns matches the text
NoPattern == \A p \in 1..4 : temp_patterns(text_content)[p] = None

\* temperature = 25.0 and temperature_fahrenheit = 77.0
Defaults(cw) ==
    /\ REq(cw.temperature, <<25, 1>>)
    /\ REq(Get(cw.temperature_fahrenheit), <<77, 1>>)

C6_ListPriority ==
    Extracted =>
        \A k \in 1..8 :
            (Present(k) /\ \A j \in 1..(k - 1) : ~Present(j)) =>
                current_weather.condition = Labels[k]

\* a page where 'cloudy' comes before 'sunny' was given the condition "Sunny"
C6_Witness ==
    /\ Extracted
    /\ Present(1)
    /\ Present(2)
    /\ Position(lower(text_content), lower(Labels[2]))
         < Position(lower(text_content), lower(Labels[1]))
    /\ current_weather.condition = Labels[1]

\* keyword k is the only condition phrase of the text: the other keywords that
\* occur in the text are parts of keyword k
Alone(k) ==
    /\ Present(k)
    /\ \A j \in 1..8 : Present(j) => Contains(lower(Labels[k]), lower(Labels[j]))

\* C7: each of the eight keywords, given alone in the text, is returned as its
\* own title-cased label; a text whose only condition phrase is 'partly
\* cloudy' has the condition "Partly Cloudy".
C7_OwnLabel ==
    Parsed =>
        \A k \in 1..8 :
            Alone(k) => Extracted /\ current_weather.condition = Labels[k]

(***************************************************************************)
(* The language of the patterns kw.*?(group)tail, stated without the       *)
(* search order of re: some keyword, some group after it on the same line  *)
(* and some unit after the group.                                          *)
(***************************************************************************)
AllDigits(s, d, e) == d <= e /\ \A k \in d..e : IsDigit(s[k])

\* s[d..e] is in \d+, or with frac in \d+(?:\.\d+)?
IsGroup(s, d, e, frac) ==
    \/ AllDigits(s, d, e)
    \/ /\ frac
       /\ \E m \in (d + 1)..(e - 1) :
            s[m] = "." /\ AllDigits(s, d, m - 1) /\ AllDigits(s, m + 1, e)

\* after the group that ends at e: white space when ws, then one of the units
UnitAfter(s, e, ws, units) ==
    \E u \in (e + 1)..(Len(s) + 1) :
        /\ ws \/ u = e + 1
        /\ \A k \in (e + 1)..(u - 1) : IsSpace(s[k])
        /\ \E w \in units : LiteralAt(s, w, u)

Matches(s, kw, frac, ws, units) ==
    \E i \in 1..Len(s) :
        /\ LiteralAt(s, kw, i)
        /\ \E d \in (i + Len(kw))..Len(s) :
            /\ IsDigit(s[d])
            /\ NoNewline(s, i + Len(kw), d - 1)
            /\ \E e \in d..Len(s) :
                IsGroup(s, d, e, frac) /\ UnitAfter(s, e, ws, units)

HumidityMatches(s) ==
    Matches(s, <<"h", "u", "m", "i", "d", "i", "t", "y">>, FALSE, FALSE, {<<"%">>})

PressureMatches(s) ==
    Matches(s, <<"p", "r", "e", "s", "s", "u", "r", "e">>, TRUE, TRUE,
            {<<"m", "b">>, <<"h", "p", "a">>})

WindSpeedMatches(s) ==
    Matches(s, <<"w", "i", "n", "d">>, TRUE, TRUE,
            {<<"k", "m", "/", "h">>, <<"m", "p", "h">>})

VisibilityMatches(s) ==
    Matches(s, <<"v", "i", "s", "i", "b", "i", "l", "i", "t", "y">>, TRUE, TRUE,
            {<<"k", "m">>})

UvIndexMatches(s) == Matches(s, <<"u", "v">>, FALSE, FALSE, {<<>>})

DirectionMatches(s) == \E k \in 1..Len(directions) : DirectionIn(s, directions[k])

AirQualityMatches(s) ==
    \E k \in 1..Len(aqi_qualities) : Contains(lower(s), aqi_qualities[k])

\* C8: each optional matcher gives None for every text in which its pattern or
\* keyword list has no match, the empty text included, and the record carries
\* the None: no 0, no default.
C8_AbsentWhenNoMatch ==
    Extracted =>
        /\ ~HumidityMatches(text_content) => current_weather.humidity = None
        /\ ~PressureMatches(text_content) => current_weather.pressure = None
        /\ ~WindSpeedMatches(text_content) => current_weather.wind_speed = None
        /\ ~DirectionMatches(text_content) => current_weather.wind_direction = None
        /\ ~VisibilityMatches(text_content) => current_weather.visibility = None
        /\ ~UvIndexMatches(text_content) => current_weather.uv_index = None
        /\ ~AirQualityMatches(text_content) => current_weather.air_quality = None

\* the empty page was parsed to a record whose seven optional fields are None
C8_Witness ==
    /\ Extracted
    /\ text_content = <<>>
    /\ current_weather.humidity = None
    /\ current_weather.pressure = None
    /\ current_weather.wind_speed = None
    /\ current_weather.wind_direction = None
    /\ current_weather.visibility = None
    /\ current_weather.uv_index = None
    /\ current_weather.air_quality = None

\* C9: _extract_current_weather is total: for every text it returns a record
\* with temperature, temperature_fahrenheit and a non-empty condition, so
\* _parse_bing_weather never returns None.
C9_Total ==
    Parsed =>
        /\ Extracted
        /\ current_weather.temperature_fahrenheit # None
        /\ current_weather.condition # <<>>

\* the fetch did not succeed: session.get raised (network error, timeout) or
\* gave a status other than 200, or response.text() raised
FetchFailed ==
    /\ fetch # None
    /\ \/ Get(fetch).exc # NoExc
       \/ Get(fetch).status # 200
       \/ page # None /\ Get(page).exc # NoExc

\* C10: scrape_weather_data returns None, and never raises, for every
\* non-success outcome of the fetch: a status other than 200, a network error
\* or a timeout.
C10_NoneOnFetchFailure ==
    (Called /\ FetchFailed) => Get(result) = Return(None)

\* a request whose session.get timed out ended with the scraper returning None
C10_Witness ==
    /\ Called
    /\ fetch # None
    /\ Get(fetch).exc.class = "ServerTimeoutError"
    /\ Get(result) = Return(None)

\* C11: a run of scrape_weather_data issues at most one fetch (no retry); when
\* the fetch does not return status 200 the body is never read, no matcher and
\* no forecast synthesis runs (no record is built) and None is returned; a
\* page is read and parsed only after a 200 response.
C11_OneFetchNoParseOnFailure ==
    /\ fetches <= 1
    /\ (fetch # None /\ Get(fetch) # GotStatus(200)) =>
          /\ page = None
          /\ result = Some(Return(None))
    /\ page # None => fetch = Some(GotStatus(200))
    /\ (Called /\ endpoint \in {"get_weather", "search_weather"}
          /\ Get(result).value # None) => Parsed /\ fetch = Some(GotStatus(200))

\* a request whose fetch was answered 404 ended after one fetch, without the
\* page being read and with None from the scraper
C11_Witness ==
    /\ Called
    /\ fetches = 1
    /\ fetch = Some(GotStatus(404))
    /\ page = None
    /\ result = Some(Return(None))

\* GET /weather/{city}/forecast has answered
ForecastCalled == Called /\ endpoint = "get_weather_forecast"

forecast_data == Get(Get(result).value)

\* C12: for every requested day count, scrape_forecast_data returns a mapping
\* whose 'forecast' has exactly days entries, whose 'forecast_days' is days and
\* whose 'city' is the given city, and the endpoint returns it with status 200.
C12_LengthIsDays ==
    ForecastCalled =>
        /\ Get(result).value # None
        /\ Len(forecast_data.forecast) = Get(days)
        /\ forecast_data.forecast_days = Get(days)
        /\ forecast_data.city = Get(city)
        /\ Get(response).status_code = 200
        /\ Get(response).body = Get(result).value

\* a parsed page gave a record, which carries the forecast of
\* _extract_forecast_data
forecast == Get(Get(Get(result).value).forecast)

\* C13: in the forecast carried inside the weather record, the entry of day
\* index i has high_temp = 28 + (i mod 3), low_temp = 22 + (i mod 2), condition
\* "Partly Cloudy" and precipitation_chance 30, for every i in 0..6.
C13_RecordForecastValues ==
    Extracted =>
        /\ Get(Get(result).value).forecast # None
        /\ Len(forecast) = 7
        /\ \A i \in 0..6 :
            /\ forecast[i + 1].high_temp = 28 + (i % 3)
            /\ forecast[i + 1].low_temp = 22 + (i % 2)
            /\ forecast[i + 1].condition = Labels[7]
            /\ forecast[i + 1].precipitation_chance = Some(30)

\* the text p is the decimal writing of n followed by '%'
PercentOf(p, n) ==
    /\ Len(p) >= 2
    /\ p[Len(p)] = "%"
    /\ AllDigits(p, 1, Len(p) - 1)
    /\ p[1] # "0"
    /\ IntValue(SubSeq(p, 1, Len(p) - 1)) = n

\* C14: in the forecast returned by scrape_forecast_data, the entry of day
\* index i has high_temp = 28 + (i mod 3), low_temp = 22 + (i mod 2), condition
\* "Partly Cloudy" and precipitation the text of 30 + 5*i followed by '%', with
\* no cap at 100%, for every i in [0, days).
C14_ForecastValues ==
    (ForecastCalled /\ Get(result).value # None) =>
        \A k \in 1..Len(forecast_data.forecast) :
            /\ forecast_data.forecast[k].high_temp = 28 + ((k - 1) % 3)
            /\ forecast_data.forecast[k].low_temp = 22 + ((k - 1) % 2)
            /\ forecast_data.forecast[k].condition = Labels[7]
            /\ PercentOf(forecast_data.forecast[k].precipitation, 30 + (5 * (k - 1)))

\* a forecast of 100 days: day index 15 has precipitation "105%", day index 99
\* "525%"
C14_Witness ==
    /\ ForecastCalled
    /\ Get(result).value # None
    /\ Len(forecast_data.forecast) = 100
    /\ forecast_data.forecast[16].precipitation = <<"1", "0", "5", "%">>
    /\ forecast_data.forecast[100].precipitation = <<"5", "2", "5", "%">>
    /\ forecast_data.forecast[100].high_temp = 28

\* C15: for the text "Temperature: 25°C Sunny weather Humidity: 60%",
\* _extract_current_weather returns temperature 25.0, temperature_fahrenheit
\* 77.0, condition "Sunny", humidity 60, and pressure, wind_speed,
\* wind_direction, visibility, uv_index and air_quality absent.
C15_Scenario ==
    (Parsed /\ text_content = ScenarioText) =>
        /\ Extracted
        /\ REq(current_weather.temperature, <<25, 1>>)
        /\ current_weather.temperature_fahrenheit # None
        /\ REq(Get(current_weather.temperature_fahrenheit), <<77, 1>>)
        /\ current_weather.condition = <<"S", "u", "n", "n", "y">>
        /\ current_weather.humidity = Some(<<"6", "0">>)
        /\ current_weather.pressure = None
        /\ current_weather.wind_speed = None
        /\ current_weather.wind_direction = None
        /\ current_weather.visibility = None
        /\ current_weather.uv_index = None
        /\ current_weather.air_quality = None

\* the scenario's page was parsed and its record has the humidity 60
C15_Witness ==
    /\ Extracted
    /\ text_content = ScenarioText
    /\ current_weather.humidity = Some(<<"6", "0">>)
    /\ current_weather.condition = Labels[1]

\* the direction d occurs in s as a whole token: no letter before it nor after
IsToken(s, d) ==
    \E i \in 1..Len(s) :
        /\ OccursAt(s, d, i)
        /\ i = 1 \/ ~IsAlpha(s[i - 1])
        /\ i + Len(d) > Len(s) \/ ~IsAlpha(s[i + Len(d)])

\* C16: _extract_wind_direction returns a direction only when it occurs in the
\* text as a whole token, and returns the token that occurs: a text whose only
\* direction token is 'NW' gives 'NW', a text with direction letters only
\* inside other words ('NEWS') gives None.
C16_WholeToken ==
    Extracted =>
        /\ current_weather.wind_direction # None =>
              IsToken(text_content, Get(current_weather.wind_direction))
        /\ \A k \in 1..Len(directions) :
              (/\ IsToken(text_content, directions[k])
               /\ \A j \in 1..Len(directions) :
                     IsToken(text_content, directions[j]) => j = k)
              => current_weather.wind_direction = Some(directions[k])

\* format_wind_direction was called on a bearing
BearingGiven == Called /\ endpoint = "format_wind_direction" /\ Get(args)[1] # None

degrees == Get(Get(args)[1])

\* r is round(n / d / 22.5): the integer nearest to 2n / 45d, the even one of
\* the two when 2n / 45d lies half way
IsRounded(n, d, r) ==
    \/ 2 * ((2 * n) - (45 * d * r)) < 45 * d /\ 2 * ((45 * d * r) - (2 * n)) < 45 * d
    \/ /\ r % 2 = 0
       /\ \/ 2 * ((2 * n) - (45 * d * r)) = 45 * d
          \/ 2 * ((45 * d * r) - (2 * n)) = 45 * d

Compass16 ==
    <<"N", "NNE", "NE", "ENE", "E", "ESE", "SE", "SSE",
      "S", "SSW", "SW", "WSW", "W", "WNW", "NW", "NNW">>

\* C17: format_wind_direction returns "Variable" for an absent bearing and,
\* for every bearing in 0..360, the label at index round(d/22.5) mod 16 of the
\* sixteen labels: 0 and 360 give "N", 200 gives "SSW".
C17_Compass ==
    (Called /\ endpoint = "format_wind_direction") =>
        /\ ~Get(result).raised
        /\ Get(args)[1] = None => Get(result).value = "Variable"
        /\ BearingGiven =>
              \E r \in 0..((degrees[1] \div degrees[2]) \div 22 + 1) :
                  /\ IsRounded(degrees[1], degrees[2], r)
                  /\ Get(result).value = Compass16[(r % 16) + 1]
        /\ (BearingGiven /\ REq(degrees, <<0, 1>>)) => Get(result).value = "N"
        /\ (BearingGiven /\ REq(degrees, <<360, 1>>)) => Get(result).value = "N"
        /\ (BearingGiven /\ REq(degrees, <<200, 1>>)) => Get(result).value = "SSW"

\* the bearing 348.75, half way between index 15 and index 16, was given "N"
C17_Witness ==
    /\ BearingGiven
    /\ REq(degrees, <<1395, 4>>)
    /\ Get(result).value = "N"

\* calculate_heat_index has returned
HeatCalled == Called /\ endpoint = "calculate_heat_index"

\* its arguments
temp_f == Get(args)[1]
humidity == Get(args)[2]

\* temp_f < 80 or humidity < 40
BelowThreshold == temp_f[1] < 80 * temp_f[2] \/ humidity[1] < 40 * humidity[2]

\* C18: calculate_heat_index is the identity below its threshold: for temp_f <
\* 80 or humidity < 40 it returns temp_f unchanged and unrounded; the
\* polynomial, rounded to one decimal, is returned only when temp_f >= 80 and
\* humidity >= 40 (79.9 for (80, 40), 105.9 for (90, 70)).
C18_IdentityBelowThreshold ==
    HeatCalled =>
        /\ ~Get(result).raised
        /\ BelowThreshold => Get(result).value = temp_f
        /\ ~BelowThreshold =>
              /\ Get(result).value[2] = 10
              /\ Get(result).value =
                    RoundedHeatIndex(temp_f[1] \div temp_f[2],
                                     humidity[1] \div humidity[2])
        /\ (temp_f = <<80, 1>> /\ humidity = <<40, 1>>) =>
              Get(result).value = <<799, 10>>
        /\ (temp_f = <<90, 1>> /\ humidity = <<70, 1>>) =>
              Get(result).value = <<1059, 10>>

\* calculate_heat_index(70, 50) returned 70
C18_Witness ==
    /\ HeatCalled
    /\ temp_f = <<70, 1>>
    /\ humidity = <<50, 1>>
    /\ Get(result).value = <<70, 1>>

\* the functions of the unit converter
Converters ==
    {"celsius_to_fahrenheit", "fahrenheit_to_celsius", "convert_pressure_units",
     "format_wind_direction", "calculate_heat_index", "calculate_dew_point"}

\* C19: the unit converter functions have no failure modes: each returns a
\* value, without raising, for every numeric temperature and every humidity in
\* 0..100.
C19_NoFailure ==
    (Called /\ endpoint \in Converters) => ~Get(result).raised

\* C20: in every CurrentWeather record produced by _extract_current_weather,
\* humidity is absent or an integer in 0..100.
C20_HumidityInRange ==
    (Extracted /\ current_weather.humidity # None) =>
        /\ Number(Get(current_weather.humidity)) >= 0
        /\ Number(Get(current_weather.humidity)) <= 100

\* GET /weather/{city} has answered for an outcome of the scraper
WeatherCalled == Called /\ endpoint = "get_weather"

\* C21: GET /weather/{city} maps the three outcomes of the scraper to three
\* distinct statuses: an exception raised by the scraper gives 500 with the
\* detail "Failed to fetch weather data", a record gives 200 with that record
\* as the body, and None gives 404.
C21_ThreeStatuses ==
    WeatherCalled =>
        /\ Get(result).raised =>
              /\ Get(response).status_code = 500
              /\ Get(response).detail = "Failed to fetch weather data"
        /\ (~Get(result).raised /\ Get(result).value # None) =>
              /\ Get(response).status_code = 200
              /\ Get(response).body = Get(result).value
        /\ ReturnedNone => Get(response).status_code = 404

\* what the call with these local variables returns when it runs alone: the
\* function of its own arguments, fetch, page and clock
RunAlone(f) ==
    IF f.call = "scrape_forecast_data"
    THEN Return(scrape_forecast_data(f.city, f.days, Today, f.cross))
    ELSE scrape_weather_data(Get(f.fetch),
                             IF f.page = None THEN NoBody ELSE Get(f.page),
                             f.city, f.state, f.country, Today, f.cross)

\* C22: calls running together on the one WeatherScraper do not interfere:
\* under every interleaving of two scrape_weather_data / scrape_forecast_data
\* calls at their await points, each call asks for the url of its own city
\* with the scraper's headers and returns what it returns when run alone, and
\* base_urls and headers stay as constructed.
C22_NoInterference ==
    /\ scraper = WeatherScraper
    /\ \A i \in Callers :
        calls[i].pc = "done" =>
            /\ calls[i].call = "scrape_weather_data" =>
                  /\ calls[i].fetch # None
                  /\ calls[i].url =
                        Url(WeatherScraper, calls[i].city, calls[i].state)
                  /\ calls[i].headers = Some(WeatherScraper.headers)
            /\ calls[i].result # None
            /\ Get(calls[i].result) = RunAlone(calls[i])

\* call 2 started, ran and returned the record of its own city while call 1,
\* for another city, was suspended at response.text()
C22_Witness ==
    /\ calls[1].pc = "text"
    /\ calls[1].city = "Pune"
    /\ calls[2].pc = "done"
    /\ calls[2].call = "scrape_weather_data"
    /\ calls[2].city = "Delhi"
    /\ Get(calls[2].result).value # None
    /\ Get(Get(calls[2].result).value).city = "Delhi"

\* call i ran _extract_current_weather on a page and returned its record
Recorded(i) ==
    /\ calls[i].pc = "done"
    /\ calls[i].call = "scrape_weather_data"
    /\ calls[i].page # None
    /\ Get(calls[i].page).exc = NoExc
    /\ Get(calls[i].result).value # None

TextOf(i) == Get(calls[i].page).text

CurrentWeatherOf(i) == Get(Get(calls[i].result).value).current_weather

OneToday(f) == \A k \in 1..Len(f) : f[k].date = f[1].date + (k - 1)

\* C24: within one synthesized forecast, of _extract_forecast_data and of
\* scrape_forecast_data, all dates are relative to one single 'today': entry i
\* is dated exactly i days after entry 0, even when the date changes while the
\* forecast is being built.
C24_OneToday ==
    /\ (ForecastCalled /\ Get(result).value # None) =>
          OneToday(forecast_data.forecast)
    /\ (Extracted /\ Get(Get(result).value).forecast # None) =>
          OneToday(forecast)

\* the WeatherResponse a parsed page gave
weather_data == Get(Get(result).value)

\* C25: every WeatherResponse returned by _parse_bing_weather carries the city
\* and state it was given unchanged, data_source "Bing Weather", a country
\* equal to the given country or "India" when none (or an empty one) was
\* given, and a forecast of exactly 7 entries whatever the page text contains.
C25_Frame ==
    Extracted =>
        /\ weather_data.city = Get(city)
        /\ weather_data.state = state
        /\ weather_data.data_source = "Bing Weather"
        /\ weather_data.country =
              IF country = None \/ Get(country) = "" THEN "India" ELSE Get(country)
        /\ weather_data.forecast # None
        /\ Len(Get(weather_data.forecast)) = 7

\* a search with an empty country and a state gave a record for "India" with
\* that state and seven forecast entries
C25_Witness ==
    /\ Extracted
    /\ country = Some("")
    /\ state = Some("TestState")
    /\ weather_data.country = "India"
    /\ weather_data.state = Some("TestState")
    /\ Len(Get(weather_data.forecast)) = 7
    /\ text_content = NewsText

\* every entry of the forecast f has high_temp >= low_temp
HighAboveLow(f) == \A k \in 1..Len(f) : f[k].high_temp >= f[k].low_temp

\* C26: every entry of every synthesized forecast satisfies high_temp >=
\* low_temp: for all i in 0..6 in _extract_forecast_data and for all days >= 0
\* and all i in [0, days) in scrape_forecast_data.
C26_HighAboveLow ==
    /\ (ForecastCalled /\ Get(result).value # None) =>
          HighAboveLow(forecast_data.forecast)
    /\ (Extracted /\ weather_data.forecast # None) =>
          HighAboveLow(Get(weather_data.forecast))

\* a forecast of 100 days whose day index 3 has the lowest high_temp, 28, and
\* the highest low_temp, 23
C26_Witness ==
    /\ ForecastCalled
    /\ Get(result).value # None
    /\ Len(forecast_data.forecast) = 100
    /\ forecast_data.forecast[4].high_temp = 28
    /\ forecast_data.forecast[4].low_temp = 23

\* the argument of a finished call of a function of one str
name == Get(args)[1]

\* s is non-empty after trimming and consists only of letters, spaces,
\* hyphens, apostrophes and dots
NonEmptyName(s) ==
    /\ strip(s) # <<>>
    /\ \A i \in 1..Len(s) :
        IsAlpha(s[i]) \/ IsSpace(s[i]) \/ s[i] \in {"-", "'", "."}

\* C27: validate_city_name accepts exactly the strings that are non-empty
\* after trimming and consist only of letters, spaces, hyphens, apostrophes
\* and dots (so a one-letter name is accepted), and its two implementations,
\* helpers.validate_city_name and CityValidator.validate_city_name, return the
\* same answer for every input.
C27_AcceptsNonEmptyNames ==
    /\ (Called /\ endpoint = "validate_city_name") =>
          /\ Get(result).value = NonEmptyName(name)
          /\ Get(result).value = CityValidator_validate_city_name(name)
    /\ (Called /\ endpoint = "CityValidator.validate_city_name") =>
          /\ Get(result).value = NonEmptyName(name)
          /\ Get(result).value = validate_city_name(name)

\* s has no leading, trailing or doubled space, and no other white space
SingleSpaced(s) ==
    /\ \A i \in 1..Len(s) : IsSpace(s[i]) => s[i] = " "
    /\ Len(s) >= 1 => s[1] # " " /\ s[Len(s)] # " "
    /\ \A i \in 1..(Len(s) - 1) : ~(s[i] = " " /\ s[i + 1] = " ")

\* a stored state or country passes its validator: it is None, empty, or a
\* valid name that sanitizing leaves as it is
StoredOptional(v) ==
    \/ v = None
    \/ Get(v) = <<>>
    \/ /\ CityValidator_validate_city_name(Get(v))
       /\ sanitize_city_name(Get(v)) = Get(v)

\* C28: sanitize_city_name is idempotent and preserves validity: for every
\* city accepted by validate_city_name, sanitizing the sanitized name changes
\* nothing, the sanitized name is again accepted, and it has no leading,
\* trailing or doubled spaces; hence the city, state and country a
\* LocationValidator stores pass their own validators.
C28_SanitizeIdempotent ==
    /\ (Called /\ endpoint = "sanitize_city_name"
          /\ CityValidator_validate_city_name(name)) =>
          /\ sanitize_city_name(Get(result).value) = Get(result).value
          /\ CityValidator_validate_city_name(Get(result).value)
          /\ SingleSpaced(Get(result).value)
    /\ (Called /\ endpoint = "LocationValidator" /\ ~Get(result).raised) =>
          /\ CityValidator_validate_city_name(Get(result).value.city)
          /\ sanitize_city_name(Get(result).value.city) = Get(result).value.city
          /\ SingleSpaced(Get(result).value.city)
          /\ StoredOptional(Get(result).value.state)
          /\ StoredOptional(Get(result).value.country)

\* "st.  john's" was sanitized to "St. John'S", one space between the words
C28_Witness ==
    /\ Called
    /\ endpoint = "sanitize_city_name"
    /\ name = <<"s", "t", ".", " ", " ", "j", "o", "h", "n", "'", "s">>
    /\ Get(result).value = <<"S", "t", ".", " ", "J", "o", "h", "n", "'", "S">>

\* C29: parse_weather_condition maps every keyword of its table to the label
\* it is listed under: for each label L and each keyword k listed for L in
\* condition_mapping, parse_weather_condition(k) is L title-cased; the empty
\* string gives "Unknown".
C29_KeywordToOwnLabel ==
    (Called /\ endpoint = "parse_weather_condition") =>
        /\ name = <<>> => Get(result).value = Unknown
        /\ \A n \in 1..Len(condition_mapping) :
            \A k \in 1..Len(condition_mapping[n].keywords) :
                name = condition_mapping[n].keywords[k] =>
                    Get(result).value = title(condition_mapping[n].normalized)

\* C30: normalize_condition is a function of its argument alone: the label
\* returned is the one returned under every iteration order of
\* VALID_CONDITIONS, also for a string that partially matches several valid
\* conditions; a string that is exactly a valid condition returns that
\* condition title-cased.
C30_OrderIndependent ==
    (Called /\ endpoint = "normalize_condition") =>
        /\ \A order \in HashOrders :
            normalize_condition(name, order) = Get(result).value
        /\ \A v \in 1..Len(VALID_CONDITIONS) :
            name = VALID_CONDITIONS[v] =>
                Get(result).value = title(VALID_CONDITIONS[v])
====
